---- MODULE Spec2Model ----
(***************************************************************************)
(* A model of nlp/algorithms/value_extraction/value_extractor.py: the      *)
(* value extractor's run() entry point, its candidate generator, overlap   *)
(* resolver, hypothetical-context filter and result assembler.             *)
(*                                                                         *)
(* Strings are sequences of one-character strings; character offsets are   *)
(* the 0-based offsets of the Python code.  The regular expressions of     *)
(* the source are kept as syntax trees and matched by a backtracking       *)
(* matcher with the leftmost, first-alternative semantics of Python's re.  *)
(***************************************************************************)
EXTENDS Integers, Sequences, FiniteSets, TLC

\* ------------------------------------------------------------------------
\* Characters

Lower == {"a", "b", "c", "d", "e", "f", "g", "h", "i", "j", "k", "l", "m",
          "n", "o", "p", "q", "r", "s", "t", "u", "v", "w", "x", "y", "z"}

Upper == {"A", "B", "C", "D", "E", "F", "G", "H", "I", "J", "K", "L", "M",
          "N", "O", "P", "Q", "R", "S", "T", "U", "V", "W", "X", "Y", "Z"}

Letter == Lower \cup Upper

Digit == {"0", "1", "2", "3", "4", "5", "6", "7", "8", "9"}

\* \s of the regular expressions, and what str.strip() removes
White == {" "}

\* \w, which decides the word boundary \b
WordChar == Letter \cup Digit \cup {"_"}

\* str.lower() on one character
LowerOf(c) ==
    CASE c = "A" -> "a" [] c = "B" -> "b" [] c = "C" -> "c" [] c = "D" -> "d"
      [] c = "E" -> "e" [] c = "F" -> "f" [] c = "G" -> "g" [] c = "H" -> "h"
      [] c = "I" -> "i" [] c = "J" -> "j" [] c = "K" -> "k" [] c = "L" -> "l"
      [] c = "M" -> "m" [] c = "N" -> "n" [] c = "O" -> "o" [] c = "P" -> "p"
      [] c = "Q" -> "q" [] c = "R" -> "r" [] c = "S" -> "s" [] c = "T" -> "t"
      [] c = "U" -> "u" [] c = "V" -> "v" [] c = "W" -> "w" [] c = "X" -> "x"
      [] c = "Y" -> "y" [] c = "Z" -> "z" [] OTHER -> c

\* str.lower()
lower(s) == [i \in 1..Len(s) |-> LowerOf(s[i])] \o <<>>

\* ------------------------------------------------------------------------
\* Python string helpers

\* EMPTY_FIELD = None in a numeric field (num2, y, minValue, maxValue): the
\* patterns capture unsigned numerals only, so no number that is extracted
\* is negative
EMPTY_FIELD == -1

\* None where the code expects a string (a condition, a group that took no
\* part in the match): no string of characters equals it
NoneStr == <<"None">>

\* s[a:b] with 0-based offsets, a <= b
Slice(s, a, b) == SubSeq(s, a + 1, IF b > Len(s) THEN Len(s) ELSE b)

RECURSIVE LStrip(_)
LStrip(s) == IF Len(s) > 0 /\ s[1] \in White THEN LStrip(Tail(s)) ELSE s

RECURSIVE RStrip(_)
RStrip(s) ==
    IF Len(s) > 0 /\ s[Len(s)] \in White THEN RStrip(SubSeq(s, 1, Len(s) - 1)) ELSE s

\* str.strip()
strip(s) == RStrip(LStrip(s))

\* s.startswith(p)
startswith(s, p) == Len(p) <= Len(s) /\ SubSeq(s, 1, Len(p)) = p

\* s.endswith(p)
endswith(s, p) == Len(p) <= Len(s) /\ SubSeq(s, Len(s) - Len(p) + 1, Len(s)) = p

\* s.find(p): the 0-based offset of the first occurrence, or -1
find(s, p) ==
    LET hits == {i \in 0..(Len(s) - Len(p)) : SubSeq(s, i + 1, i + Len(p)) = p}
    IN  IF hits = {} THEN -1 ELSE CHOOSE i \in hits : \A j \in hits : i <= j

\* s.split(sep) for a one-character separator
RECURSIVE SplitOn(_, _, _)
SplitOn(s, sep, cur) ==
    IF s = <<>> THEN <<cur>>
    ELSE IF Head(s) = sep THEN <<cur>> \o SplitOn(Tail(s), sep, <<>>)
    ELSE SplitOn(Tail(s), sep, Append(cur, Head(s)))

split(s, sep) == SplitOn(s, sep, <<>>)

\* re.split(r'[,;\s]+', s): a run of separators is one cut; a separator at
\* either end leaves an empty first or last word
RECURSIVE SplitRuns(_, _, _, _)
SplitRuns(s, seps, cur, inrun) ==
    IF s = <<>> THEN <<cur>>
    ELSE IF Head(s) \in seps
         THEN IF inrun THEN SplitRuns(Tail(s), seps, cur, TRUE)
              ELSE <<cur>> \o SplitRuns(Tail(s), seps, <<>>, TRUE)
         ELSE SplitRuns(Tail(s), seps, Append(cur, Head(s)), FALSE)

re_split(s, seps) == SplitRuns(s, seps, <<>>, FALSE)

\* ------------------------------------------------------------------------
\* Regular expressions as syntax trees

Chr(S)  == [t |-> "chr", set |-> S]
Cat(xs) == [t |-> "cat", xs |-> xs]
Alt(xs) == [t |-> "alt", xs |-> xs]
Lit(s)  == [t |-> "lit", s |-> s]
\* r{lo,hi}, greedy or not; Unbounded stands for no upper limit
Rep(r, lo, hi, greedy) == [t |-> "rep", r |-> r, lo |-> lo, hi |-> hi, greedy |-> greedy]
Grp(name, r) == [t |-> "grp", name |-> name, r |-> r]
WB == [t |-> "wb"]
NotAhead(S) == [t |-> "nla", set |-> S]
AtEnd == [t |-> "end"]

\* no string of the model is this long, so a repeat of Unbounded never runs out
Unbounded == 64

Opt(r)  == Rep(r, 0, 1, TRUE)
Star(r) == Rep(r, 0, Unbounded, TRUE)
Plus(r) == Rep(r, 1, Unbounded, TRUE)

\* the named groups the code reads
GroupNames == {"words", "cond", "val", "suffix", "num1", "num2", "suffix1",
               "suffix2", "units1", "units2", "frac", "frac1", "frac2",
               "dur_amt", "dur_amt1"}

NoGroups == [g \in GroupNames |-> <<0, 0>>]

NoMatch == [ok |-> FALSE]

\* a local variable: x is computed at the assignment, then Body is evaluated
\* with the variable bound to that value
With(x, Body(_)) == CASE x = x -> Body(x)

\* a statement that has run: x has its value
Done(x) == x = x

IsWordAt(s, i) == i >= 1 /\ i <= Len(s) /\ s[i] \in WordChar

\* the longest run of characters of S from position i, at most hi long
RunLength(s, i, S, hi) ==
    LET limit == IF Len(s) - i + 1 < hi THEN Len(s) - i + 1 ELSE hi
    IN  CHOOSE n \in 0..limit :
            /\ \A j \in 0..(n - 1) : s[i + j] \in S
            /\ (n = limit \/ s[i + n] \notin S)

\* the lists of seqs one after the other
RECURSIVE ConcatFrom(_, _)
ConcatFrom(seqs, i) ==
    IF i \notin DOMAIN seqs THEN <<>> ELSE seqs[i] \o ConcatFrom(seqs, i + 1)

Concat(seqs) == ConcatFrom(seqs, 1)

\* what F yields for each of the states, in their order
FlatMap(states, F(_)) ==
    CASE Len(states) = 0 -> <<>>
      [] Len(states) = 1 -> F(states[1])
      [] OTHER -> With([j \in 1..Len(states) |-> F(states[j])],
                       LAMBDA parts : Concat(parts))

\* a matcher state: the position (1-based) reached and the groups set so far
At(i, caps) == [end |-> i, caps |-> caps]

\* the matcher: every way in which expression r matches s from state st on,
\* in the order a backtracking matcher tries them, each as the state it ends
\* in.  A repeated character class takes its longest run first and gives
\* characters back one at a time.
RECURSIVE Matches(_, _, _)
Matches(r, s, st) ==
    CASE r.t = "chr" ->
            IF st.end <= Len(s) /\ s[st.end] \in r.set
            THEN <<At(st.end + 1, st.caps)>> ELSE <<>>
      [] r.t = "lit" ->
            IF st.end + Len(r.s) - 1 <= Len(s)
               /\ SubSeq(s, st.end, st.end + Len(r.s) - 1) = r.s
            THEN <<At(st.end + Len(r.s), st.caps)>> ELSE <<>>
      [] r.t = "cat" /\ Len(r.xs) = 0 -> <<st>>
      [] r.t = "cat" /\ Len(r.xs) = 1 -> Matches(r.xs[1], s, st)
      [] r.t = "cat" ->
            FlatMap(Matches(r.xs[1], s, st), LAMBDA t : Matches(Cat(Tail(r.xs)), s, t))
      [] r.t = "alt" ->
            With([j \in 1..Len(r.xs) |-> Matches(r.xs[j], s, st)],
                 LAMBDA parts : Concat(parts))
      [] r.t = "rep" /\ r.r.t = "chr" /\ r.greedy ->
            With(RunLength(s, st.end, r.r.set, r.hi),
                 LAMBDA run : IF run < r.lo THEN <<>>
                              ELSE [c \in 1..(run - r.lo + 1) |->
                                       At(st.end + run - c + 1, st.caps)] \o <<>>)
      [] r.t = "rep" /\ r.hi = 0 -> <<st>>
      [] r.t = "rep" /\ r.lo > 0 ->
            FlatMap(Matches(r.r, s, st),
                    LAMBDA t : Matches(Rep(r.r, r.lo - 1, r.hi - 1, r.greedy), s, t))
      [] r.t = "rep" /\ r.greedy ->
            FlatMap(Matches(r.r, s, st),
                    LAMBDA t : Matches(Rep(r.r, 0, r.hi - 1, TRUE), s, t)) \o <<st>>
      [] r.t = "rep" ->
            <<st>> \o FlatMap(Matches(r.r, s, st),
                              LAMBDA t : Matches(Rep(r.r, 0, r.hi - 1, FALSE), s, t))
      [] r.t = "grp" ->
            With(Matches(r.r, s, st),
                 LAMBDA inner : [j \in 1..Len(inner) |->
                                    At(inner[j].end,
                                       [inner[j].caps EXCEPT
                                          ![r.name] = <<st.end, inner[j].end>>])] \o <<>>)
      [] r.t = "wb" ->
            IF IsWordAt(s, st.end - 1) # IsWordAt(s, st.end) THEN <<st>> ELSE <<>>
      [] r.t = "nla" ->
            IF st.end <= Len(s) /\ s[st.end] \in r.set THEN <<>> ELSE <<st>>
      [] r.t = "end" -> IF st.end = Len(s) + 1 THEN <<st>> ELSE <<>>

\* re.match at position j: the first match a backtracking matcher finds
MatchAt(re, s, j) ==
    With(Matches(re, s, At(j, NoGroups)),
         LAMBDA found :
            IF Len(found) = 0 THEN NoMatch
            ELSE [ok |-> TRUE, start |-> j, end |-> found[1].end, caps |-> found[1].caps])

\* re.search from position i on: the leftmost match
SearchFrom(re, s, i) ==
    With([j \in i..(Len(s) + 1) |-> MatchAt(re, s, j)],
         LAMBDA tried :
            IF \A j \in DOMAIN tried : ~tried[j].ok THEN NoMatch
            ELSE tried[CHOOSE j \in DOMAIN tried :
                            tried[j].ok /\ \A h \in i..(j - 1) : ~tried[h].ok])

\* re.search(re, s) as a truth value
search(re, s) == \E j \in 1..(Len(s) + 1) : Len(Matches(re, s, At(j, NoGroups))) > 0

\* re.finditer(re, s): the non-overlapping matches, left to right; an empty
\* match moves the scan one character on
RECURSIVE FindFrom(_, _, _)
FindFrom(re, s, i) ==
    With(SearchFrom(re, s, i),
         LAMBDA m :
            IF ~m.ok THEN <<>>
            ELSE <<m>> \o FindFrom(re, s, IF m.end > m.start THEN m.end
                                          ELSE m.start + 1))

finditer(re, s) == FindFrom(re, s, 1)

\* match.group(): the matched text
group0(s, m) == SubSeq(s, m.start, m.end - 1)

\* match.group(name): the text of a named group, or None when it took no part
group(s, m, name) ==
    IF m.caps[name] = <<0, 0>> THEN NoneStr
    ELSE SubSeq(s, m.caps[name][1], m.caps[name][2] - 1)

\* match.start() and match.start(name) as 0-based offsets
mstart(m) == m.start - 1
mend(m) == m.end - 1
gstart(m, name) == m.caps[name][1] - 1

\* ------------------------------------------------------------------------
\* The regular expressions of the module (lines 174-318)

\* _regex_whitespace_replace = [%(){}\[\]]
whitespace_replace_chars == {"%", "(", ")", "{", "}", "[", "]"}

\* _str_text_word = [-a-zA-Z.]+
str_text_word == Plus(Chr(Letter \cup {"-", "."}))

\* _str_enumlist_value = [-a-zA-Z:\d/\+()]+
str_enumlist_value == Plus(Chr(Letter \cup Digit \cup {"-", ":", "/", "+", "(", ")"}))

\* _str_words = ([-a-zA-Z.]+\s+){0,8}?
str_words == Rep(Cat(<<Plus(Chr(Letter \cup {"-", "."})), Plus(Chr(White))>>), 0, 8, FALSE)

\* _str_digits = \d+
str_digits == Plus(Chr(Digit))

\* _str_op = ((is|of|was|approx\.?|approximately|~=|>=|<=|[<>=~\?])\s*)?
str_op ==
    Opt(Cat(<<Alt(<<Lit(<<"i", "s">>), Lit(<<"o", "f">>), Lit(<<"w", "a", "s">>),
                    Cat(<<Lit(<<"a", "p", "p", "r", "o", "x">>), Opt(Chr({"."}))>>),
                    Lit(<<"a", "p", "p", "r", "o", "x", "i", "m", "a", "t", "e", "l", "y">>), Lit(<<"~", "=">>), Lit(<<">", "=">>), Lit(<<"<", "=">>),
                    Chr({"<", ">", "=", "~", "?"})>>),
              Star(Chr(White))>>))

\* _str_approx = (~=|~|\b(approx\.?|approximately|near(ly)?|about))
str_approx ==
    Alt(<<Lit(<<"~", "=">>), Lit(<<"~">>),
          Cat(<<WB, Alt(<<Cat(<<Lit(<<"a", "p", "p", "r", "o", "x">>), Opt(Chr({"."}))>>),
                          Lit(<<"a", "p", "p", "r", "o", "x", "i", "m", "a", "t", "e", "l", "y">>),
                          Cat(<<Lit(<<"n", "e", "a", "r">>), Opt(Lit(<<"l", "y">>))>>),
                          Lit(<<"a", "b", "o", "u", "t">>)>>)>>)>>)

\* _str_equal = \b(equal|eq\.?)
str_equal == Cat(<<WB, Alt(<<Lit(<<"e", "q", "u", "a", "l">>), Cat(<<Lit(<<"e", "q">>), Opt(Chr({"."}))>>)>>)>>)

\* _str_less_than = \b(less\s+than|lt\.?|up\s+to|under)
str_less_than ==
    Cat(<<WB, Alt(<<Cat(<<Lit(<<"l", "e", "s", "s">>), Plus(Chr(White)), Lit(<<"t", "h", "a", "n">>)>>),
                    Cat(<<Lit(<<"l", "t">>), Opt(Chr({"."}))>>),
                    Cat(<<Lit(<<"u", "p">>), Plus(Chr(White)), Lit(<<"t", "o">>)>>),
                    Lit(<<"u", "n", "d", "e", "r">>)>>)>>)

\* _str_gt_than = \b(greater\s+than|gt\.?|exceed(ing|s)|above|over)
str_gt_than ==
    Cat(<<WB, Alt(<<Cat(<<Lit(<<"g", "r", "e", "a", "t", "e", "r">>), Plus(Chr(White)), Lit(<<"t", "h", "a", "n">>)>>),
                    Cat(<<Lit(<<"g", "t">>), Opt(Chr({"."}))>>),
                    Cat(<<Lit(<<"e", "x", "c", "e", "e", "d">>), Alt(<<Lit(<<"i", "n", "g">>), Lit(<<"s">>)>>)>>),
                    Lit(<<"a", "b", "o", "v", "e">>), Lit(<<"o", "v", "e", "r">>)>>)>>)

\* \s+or\s+ between a comparison and 'equal'
OrEqual == Cat(<<Plus(Chr(White)), Lit(<<"o", "r">>), Plus(Chr(White)), str_equal>>)

\* _str_lt = (<|less_than),  _str_lte = (<=|less_than\s+or\s+equal)
str_lt  == Alt(<<Lit(<<"<">>), str_less_than>>)
str_lte == Alt(<<Lit(<<"<", "=">>), Cat(<<str_less_than, OrEqual>>)>>)

\* _str_gt = (>|gt_than),  _str_gte = (>=|gt_than\s+or\s+equal)
str_gt  == Alt(<<Lit(<<">">>), str_gt_than>>)
str_gte == Alt(<<Lit(<<">", "=">>), Cat(<<str_gt_than, OrEqual>>)>>)

\* _str_separator = ([-:=\s]\s*)?
str_separator == Opt(Cat(<<Chr({"-", ":", "=", " "}), Star(Chr(White))>>))

\* _str_comma_num = \d{1,3}(,\d{3})+
str_comma_num ==
    Cat(<<Rep(Chr(Digit), 1, 3, TRUE),
          Plus(Cat(<<Chr({","}), Rep(Chr(Digit), 3, 3, TRUE)>>))>>)

\* _str_int_float = (\d+(\.\d+)?|\.\d+)
str_int_float ==
    Alt(<<Cat(<<Plus(Chr(Digit)), Opt(Cat(<<Chr({"."}), Plus(Chr(Digit))>>))>>),
          Cat(<<Chr({"."}), Plus(Chr(Digit))>>)>>)

\* _str_num = comma_num|int_float
str_num == Alt(<<str_comma_num, str_int_float>>)

\* _str_cond = (?P<cond> _str_op )
str_cond == Grp("cond", str_op)

\* _str_suffix = (k|K|s|\'s)?
str_suffix == Opt(Alt(<<Lit(<<"k">>), Lit(<<"K">>), Lit(<<"s">>), Lit(<<"'", "s">>)>>))

\* _str_val = (?P<val> num )(?P<suffix> suffix )
str_val == Cat(<<Grp("val", str_num), Grp("suffix", str_suffix)>>)

\* _str_range_sep = \s*(-|to(\s+the)?)\s*
str_range_sep ==
    Cat(<<Star(Chr(White)),
          Alt(<<Lit(<<"-">>),
                Cat(<<Lit(<<"t", "o">>), Opt(Cat(<<Plus(Chr(White)), Lit(<<"t", "h", "e">>)>>))>>)>>),
          Star(Chr(White))>>)

\* _str_range = (?P<num1>num) suffix1 range_sep (?P<num2>num) suffix2
str_range ==
    Cat(<<Grp("num1", str_num), Grp("suffix1", str_suffix), str_range_sep,
          Grp("num2", str_num), Grp("suffix2", str_suffix)>>)

\* _str_bf = \b(between|from)\s*
str_bf == Cat(<<WB, Alt(<<Lit(<<"b", "e", "t", "w", "e", "e", "n">>), Lit(<<"f", "r", "o", "m">>)>>), Star(Chr(White))>>)

\* _str_bf_sep = \s*(-|to|and)\s*
str_bf_sep ==
    Cat(<<Star(Chr(White)), Alt(<<Lit(<<"-">>), Lit(<<"t", "o">>), Lit(<<"a", "n", "d">>)>>),
          Star(Chr(White))>>)

\* _str_bf_range = bf (?P<num1>num) suffix1 bf_sep (?P<num2>num) suffix2
str_bf_range ==
    Cat(<<str_bf, Grp("num1", str_num), Grp("suffix1", str_suffix), str_bf_sep,
          Grp("num2", str_num), Grp("suffix2", str_suffix)>>)

\* _str_units_range =
\*   (bf)?(?P<num1>num)\s*(?P<units1>(text_word)?) bf_sep (?P<num2>num)\s*(?P<units2>text_word)
str_units_range ==
    Cat(<<Opt(str_bf), Grp("num1", str_num), Star(Chr(White)),
          Grp("units1", Opt(str_text_word)), str_bf_sep,
          Grp("num2", str_num), Star(Chr(White)), Grp("units2", str_text_word)>>)

\* _str_fraction = \d+\s*/\s*\d+
str_fraction ==
    Cat(<<Plus(Chr(Digit)), Star(Chr(White)), Chr({"/"}), Star(Chr(White)),
          Plus(Chr(Digit))>>)

\* (\'?s)?
PluralS == Opt(Cat(<<Opt(Chr({"'"})), Chr({"s"})>>))

\* _str_fraction_range = (?P<frac1>fraction)(\'?s)? range_sep (?P<frac2>fraction)(\'?s)?
str_fraction_range ==
    Cat(<<Grp("frac1", str_fraction), PluralS, str_range_sep,
          Grp("frac2", str_fraction), PluralS>>)

\* _str_bf_fraction_range = bf (?P<frac1>fraction)(\'?s)? bf_sep (?P<frac2>fraction)(\'?s)?
str_bf_fraction_range ==
    Cat(<<str_bf, Grp("frac1", str_fraction), PluralS, str_bf_sep,
          Grp("frac2", str_fraction), PluralS>>)

\* _str_punct = [.;,?\'\"!$%~]
punct_chars == {".", ";", ",", "?", "'", "\"", "!", "$", "%", "~"}

\* ------------------------------------------------------------------------
\* Numbers

DigitValue(c) ==
    CASE c = "0" -> 0 [] c = "1" -> 1 [] c = "2" -> 2 [] c = "3" -> 3 [] c = "4" -> 4
      [] c = "5" -> 5 [] c = "6" -> 6 [] c = "7" -> 7 [] c = "8" -> 8 [] c = "9" -> 9

RECURSIVE DigitsValue(_, _)
DigitsValue(s, acc) ==
    IF s = <<>> THEN acc ELSE DigitsValue(Tail(s), 10 * acc + DigitValue(Head(s)))

\* whether int(s) and float(s) accept s: an unsigned run of digits, blanks
\* around it allowed (the model's sentences hold no decimal point in a number)
IsNumeral(s) == LET t == strip(s) IN Len(t) > 0 /\ \A i \in 1..Len(t) : t[i] \in Digit

\* int(s) or float(s) of a numeral
ToNumber(s) == DigitsValue(strip(s), 0)

\* re.sub(r',', '', s)
RemoveCommas(s) == SelectSeq(s, LAMBDA c : c # ",")

\* sys.float_info.max, the default bound of run(): above every number of the model
FLOAT_MAX == 100000000

\* _get_num_and_denom: '110/70' to (110, 70)
get_num_and_denom(text) ==
    LET values == split(strip(text), "/")
    IN  <<ToNumber(values[1]), ToNumber(values[2])>>

\* _get_suffixed_num: the number of group num_grp, times 1000 under a k suffix
get_suffixed_num(s, m, num_grp, suffix_grp) ==
    LET num == ToNumber(RemoveCommas(group(s, m, num_grp)))
        suffix == group(s, m, suffix_grp)
    IN  IF suffix # NoneStr /\ Len(suffix) > 0 /\ lower(suffix) = <<"k">>
        THEN num * 1000 ELSE num

\* ------------------------------------------------------------------------
\* Conditions

STR_APPROX         == "APPROX"
STR_LT             == "LESS_THAN"
STR_LTE            == "LESS_THAN_OR_EQUAL"
STR_GT             == "GREATER_THAN"
STR_GTE            == "GREATER_THAN_OR_EQUAL"
STR_EQUAL          == "EQUAL"
STR_RANGE          == "RANGE"
STR_FRACTION_RANGE == "FRACTION_RANGE"

\* EMPTY_FIELD passed as a condition
NO_COND == "None"

\* the classes tested in another order: less-than before less-than-or-equal
cond_to_string_lt_first(words, cond) ==
    LET s == words \o <<" ">> \o cond
    IN  IF search(str_approx, s) THEN STR_APPROX
        ELSE IF search(str_lt, s) THEN STR_LT
        ELSE IF search(str_lte, s) THEN STR_LTE
        ELSE IF search(str_gte, s) THEN STR_GTE
        ELSE IF search(str_gt, s) THEN STR_GT
        ELSE STR_EQUAL

\* _cond_to_string: the relation between the query term and the value
cond_to_string(words, cond) ==
    LET s == words \o <<" ">> \o cond
    IN  IF search(str_approx, s) THEN STR_APPROX
        ELSE IF search(str_lte, s) THEN STR_LTE
        ELSE IF search(str_gte, s) THEN STR_GTE
        ELSE IF search(str_lt, s) THEN STR_LT
        ELSE IF search(str_gt, s) THEN STR_GT
        ELSE STR_EQUAL

\* ------------------------------------------------------------------------
\* Candidates

ValueMeasurement(text, start, end, num1, num2, cond, matching_term) ==
    [text |-> text, start |-> start, end |-> end, num1 |-> num1, num2 |-> num2,
     cond |-> cond, matching_term |-> matching_term]

\* the local state of _extract_value: the candidates, their claimed spans,
\* the variable 'words' (unbound until a loop assigns it) and a raised exception
Unbound_words == <<"unbound">>

NoError == "none"

ExtractState(results, spans, words, err) ==
    [results |-> results, spans |-> spans, words |-> words, err |-> err]

\* a for loop over the matches of one pattern
FoldMatches(step(_, _), acc, ms) ==
    LET f[i \in 0..Len(ms)] ==
            IF i = 0 THEN acc
            ELSE With(f[i - 1],
                      LAMBDA a : IF a.err # NoError THEN a ELSE step(a, ms[i]))
    IN  f[Len(ms)]

\* _update_match_results: register the match unless a claimed span contains it
update_match_results(s, m, acc, num1, num2, cond, matching_term) ==
    LET match_text == strip(group0(s, m))
        start == mstart(m)
        end == start + Len(match_text)
        keep_it == ~ \E k \in 1..Len(acc.spans) :
                        start >= acc.spans[k][1] /\ end <= acc.spans[k][2]
    IN  IF keep_it
        THEN [acc EXCEPT
                !.results = Append(@, ValueMeasurement(match_text, start, end, num1,
                                                        num2, cond, matching_term)),
                !.spans = Append(@, <<start, end>>)]
        ELSE acc

\* _get_query_start: the query term, optional words and a separator
get_query_start(query_term) ==
    LET after == Cat(<<Lit(query_term), Plus(Chr(White)),
                       Cat(<<Plus(Chr(Letter)), Star(Chr(White))>>)>>)
        str_query ==
            IF Len(query_term) > 1
            THEN Cat(<<WB, Alt(<<Cat(<<Lit(query_term), Star(Chr(White))>>), after>>),
                       str_separator>>)
            ELSE Cat(<<WB, Alt(<<Cat(<<Lit(query_term), NotAhead(Letter),
                                       Star(Chr(White))>>), after>>),
                       str_separator>>)
    IN  Cat(<<str_query, Grp("words", str_words)>>)

\* the acceptance test with the lower bound only
InRange_lower_only(x, minval, maxval) == x >= minval

InRange(x, minval, maxval) == x >= minval /\ x <= maxval

\* ------------------------------------------------------------------------
\* _extract_value: the pattern families, in the order the code runs them

\* lines 618-642: between/from fraction ranges, registered without a span check
bf_fraction_range_step(s, acc, m, query_term, minval, maxval, denom_only) ==
    LET f1 == get_num_and_denom(group(s, m, "frac1"))
        f2 == get_num_and_denom(group(s, m, "frac2"))
        x1 == IF denom_only THEN f1[2] ELSE f1[1]
        x2 == IF denom_only THEN f2[2] ELSE f2[1]
        match_text == strip(group0(s, m))
        start == mstart(m)
        end == start + Len(match_text)
    IN  IF InRange(x1, minval, maxval) /\ InRange(x2, minval, maxval)
        THEN [acc EXCEPT
                !.results = Append(@, ValueMeasurement(match_text, start, end, x1, x2,
                                                        STR_FRACTION_RANGE, query_term)),
                !.spans = Append(@, <<start, end>>)]
        ELSE acc

\* lines 644-663: other fraction ranges
fraction_range_step(s, acc, m, query_term, minval, maxval, denom_only) ==
    LET f1 == get_num_and_denom(group(s, m, "frac1"))
        f2 == get_num_and_denom(group(s, m, "frac2"))
        x1 == IF denom_only THEN f1[2] ELSE f1[1]
        x2 == IF denom_only THEN f2[2] ELSE f2[1]
    IN  IF InRange(x1, minval, maxval) /\ InRange(x2, minval, maxval)
        THEN update_match_results(s, m, acc, x1, x2, STR_FRACTION_RANGE, query_term)
        ELSE acc

\* lines 665-683: fractions
fraction_step(s, acc, m, query_term, minval, maxval, denom_only) ==
    LET f == get_num_and_denom(group(s, m, "frac"))
        x == IF denom_only THEN f[2] ELSE f[1]
        words == group(s, m, "words")
        cond_words == strip(group(s, m, "cond"))
    IN  IF InRange(x, minval, maxval)
        THEN update_match_results(s, m, [acc EXCEPT !.words = words], x, EMPTY_FIELD,
                                  cond_to_string(words, cond_words), query_term)
        ELSE acc

\* lines 685-709: ranges with units; float() of a number with commas raises
units_range_step(s, acc, m, query_term, minval, maxval) ==
    LET u1 == SelectSeq(lower(strip(group(s, m, "units1"))), LAMBDA c : c \notin punct_chars)
        units2 == SelectSeq(lower(strip(group(s, m, "units2"))), LAMBDA c : c \notin punct_chars)
        units1 == IF Len(u1) = 0 THEN units2 ELSE u1
        k == IF lower(units1) = <<"k">> THEN 1000 ELSE 1
    IN  IF units1 # units2 THEN acc
        ELSE IF ~IsNumeral(group(s, m, "num1")) \/ ~IsNumeral(group(s, m, "num2"))
        THEN [acc EXCEPT !.err = "ValueError"]
        ELSE LET num1 == ToNumber(group(s, m, "num1")) * k
                 num2 == ToNumber(group(s, m, "num2")) * k
             IN  IF InRange(num1, minval, maxval) /\ InRange(num2, minval, maxval)
                 THEN update_match_results(s, m, acc, num1, num2, STR_RANGE, query_term)
                 ELSE acc

\* lines 711-737: between/from ranges and plain ranges
range_step(s, acc, m, query_term, minval, maxval) ==
    LET num1 == get_suffixed_num(s, m, "num1", "suffix1")
        num2 == get_suffixed_num(s, m, "num2", "suffix2")
    IN  IF InRange(num1, minval, maxval) /\ InRange(num2, minval, maxval)
        THEN update_match_results(s, m, acc, num1, num2, STR_RANGE, query_term)
        ELSE acc

\* lines 739-755: operator and value
op_val_step(s, acc, m, query_term, minval, maxval) ==
    LET val == get_suffixed_num(s, m, "val", "suffix")
        words == group(s, m, "words")
        cond_words == strip(group(s, m, "cond"))
    IN  IF InRange(val, minval, maxval)
        THEN IF search(str_bf, words) \/ search(str_bf, cond_words)
             THEN [acc EXCEPT !.words = words]
             ELSE update_match_results(s, m, [acc EXCEPT !.words = words], val,
                                       EMPTY_FIELD, cond_to_string(words, cond_words),
                                       query_term)
        ELSE acc

\* lines 757-771: words and value; 'words' is whatever an earlier loop left
\* in it, and the condition passed on is EMPTY_FIELD
wds_val_step(s, acc, m, query_term, minval, maxval) ==
    LET val == get_suffixed_num(s, m, "val", "suffix")
    IN  IF InRange(val, minval, maxval)
        THEN IF acc.words = Unbound_words THEN [acc EXCEPT !.err = "NameError"]
             ELSE IF search(str_bf, acc.words) THEN acc
             ELSE update_match_results(s, m, acc, val, EMPTY_FIELD, NO_COND, query_term)
        ELSE acc

\* lines 587-771: the candidates of one query term before the hypothetical filter
extract_candidates(query_term, sentence, minval, maxval, denom_only) ==
    LET s == sentence
        str_start == get_query_start(query_term)
        str_fraction_query == Cat(<<str_start, str_cond, Grp("frac", str_fraction)>>)
        str_fraction_range_query == Cat(<<str_start, str_cond, str_fraction_range>>)
        str_bf_fraction_range_query == Cat(<<str_start, str_cond, str_bf_fraction_range>>)
        str_op_val_query == Cat(<<str_start, str_cond, str_val>>)
        str_range_query == Cat(<<str_start, str_cond, str_range>>)
        str_bf_range_query == Cat(<<str_start, str_cond, str_bf_range>>)
        str_units_range_query == Cat(<<str_start, str_cond, str_units_range>>)
        str_wds_val_query == Cat(<<str_start, str_val>>)
        a0 == ExtractState(<<>>, <<>>, Unbound_words, NoError)
        a1 == FoldMatches(LAMBDA a, m : bf_fraction_range_step(s, a, m, query_term,
                                            minval, maxval, denom_only),
                          a0, finditer(str_bf_fraction_range_query, s))
        a2 == FoldMatches(LAMBDA a, m : fraction_range_step(s, a, m, query_term,
                                            minval, maxval, denom_only),
                          a1, finditer(str_fraction_range_query, s))
        a3 == FoldMatches(LAMBDA a, m : fraction_step(s, a, m, query_term,
                                            minval, maxval, denom_only),
                          a2, finditer(str_fraction_query, s))
        a4 == FoldMatches(LAMBDA a, m : units_range_step(s, a, m, query_term,
                                            minval, maxval),
                          a3, finditer(str_units_range_query, s))
        a5 == FoldMatches(LAMBDA a, m : range_step(s, a, m, query_term, minval, maxval),
                          a4, finditer(str_bf_range_query, s))
        a6 == FoldMatches(LAMBDA a, m : range_step(s, a, m, query_term, minval, maxval),
                          a5, finditer(str_range_query, s))
        a7 == FoldMatches(LAMBDA a, m : op_val_step(s, a, m, query_term, minval, maxval),
                          a6, finditer(str_op_val_query, s))
        a8 == FoldMatches(LAMBDA a, m : wds_val_step(s, a, m, query_term, minval, maxval),
                          a7, finditer(str_wds_val_query, s))
    IN  CASE ~search(str_digits, s) -> a0
          [] Done(a1) /\ Done(a2) /\ Done(a3) /\ Done(a4) /\ Done(a5) /\ Done(a6)
                /\ Done(a7) -> a8

\* ------------------------------------------------------------------------
\* _remove_hypotheticals

\* number of words influenced by a hypothetical start term
WINDOW == 6

\* str_split = r'[,;\s]+'
str_split == {",", ";", " "}

\* lines 926-942: the word span of each result, found by looking for the
\* first place in the sentence whose words start with the words of the
\* result's text; a result whose text is found nowhere gets no span
result_word_start(words, r) ==
    LET r_words == re_split(lower(r.text), str_split)
        r_word_count == Len(r_words)
        hits == {i \in 0..(Len(words) - r_word_count) :
                    \A j \in 0..(r_word_count - 1) :
                        startswith(words[i + j + 1], r_words[j + 1])}
    IN  IF hits = {} THEN -1 ELSE CHOOSE i \in hits : \A h \in hits : i <= h

\* lines 955-981: the word index at which each trigger's window starts
trigger_starts(words) ==
    LET word_count == Len(words)
        w(i) == words[i + 1]
    IN  {i + 1 : i \in {i \in 0..(word_count - 1) :
                    w(i) = <<"c", "a", "l", "l">> /\ i < word_count - 1 /\ w(i + 1) = <<"f", "o", "r">>}}
        \cup
        {i : i \in {i \in 0..(word_count - 1) :
                    /\ w(i) = <<"i", "f">>
                    /\ ~(i > 0 /\ w(i - 1) = <<"k", "n", "o", "w">>)
                    /\ ~(i < word_count - 1 /\ w(i + 1) = <<"n", "e", "g", "a", "t", "i", "v", "e">>)}}
        \cup
        {i + 1 : i \in {i \in 0..(word_count - 1) :
                    w(i) = <<"i", "n">> /\ i < word_count - 2 /\ w(i + 1) = <<"c", "a", "s", "e">>}}
        \cup
        {i : i \in {i \in 0..(word_count - 1) : w(i) = <<"s", "h", "o", "u", "l", "d">>}}

\* lines 987-1001: a located result that starts fewer than WINDOW words
\* after a trigger is omitted
is_omitted(words, triggers, r) ==
    LET rs_start == result_word_start(words, r)
    IN  /\ rs_start # -1
        /\ \E h_start \in triggers : rs_start >= h_start /\ rs_start - h_start < WINDOW

remove_hypotheticals(sentence, results) ==
    LET words == re_split(lower(sentence), str_split)
        triggers == trigger_starts(words)
        omit_results == {results[k] : k \in {k \in 1..Len(results) :
                                                is_omitted(words, triggers, results[k])}}
    IN  SelectSeq(results, LAMBDA r : r \notin omit_results)

\* _extract_value: the candidates of one term that survive the filter
extract_value(query_term, sentence, minval, maxval, denom_only) ==
    With(extract_candidates(query_term, sentence, minval, maxval, denom_only),
         LAMBDA acc :
            [results |-> IF acc.err = NoError
                         THEN remove_hypotheticals(sentence, acc.results) ELSE <<>>,
             candidates |-> acc.results,
             err |-> acc.err])

\* ------------------------------------------------------------------------
\* _resolve_overlap

\* lines 862-887 with the later of two results with identical spans
\* discarded, whatever their terms
to_discard_later_of_identical(ri, rj) ==
    LET s1 == ri.start  e1 == ri.end
        s2 == rj.start  e2 == rj.end
        term1 == ri.matching_term
        term2 == rj.matching_term
    IN  IF s1 = s2 /\ e1 = e2
        THEN rj
        ELSE IF endswith(ri.text, term2) THEN ri
        ELSE IF s2 < s1 + Len(term1)
             THEN (IF Len(term2) > Len(term1) THEN ri ELSE rj)
             ELSE ri

\* lines 862-887 with the earlier of two results whose terms overlap
\* discarded, whatever their terms
to_discard_earlier_of_partial(ri, rj) ==
    LET s1 == ri.start  e1 == ri.end
        s2 == rj.start  e2 == rj.end
        term1 == ri.matching_term
        term2 == rj.matching_term
    IN  IF s1 = s2 /\ e1 = e2
        THEN (IF Len(term1) > Len(term2) THEN rj ELSE ri)
        ELSE ri

\* the rules with the last one turned round: of two results whose terms lie
\* apart the later one is discarded
to_discard_later_of_apart(ri, rj) ==
    LET s1 == ri.start  e1 == ri.end
        s2 == rj.start  e2 == rj.end
        term1 == ri.matching_term
        term2 == rj.matching_term
    IN  IF s1 = s2 /\ e1 = e2
        THEN (IF Len(term1) > Len(term2) THEN rj ELSE ri)
        ELSE IF endswith(ri.text, term2) THEN ri
        ELSE IF s2 < s1 + Len(term1)
             THEN (IF Len(term2) > Len(term1) THEN ri ELSE rj)
             ELSE rj

\* lines 862-887: which of two overlapping results, the earlier ri and the
\* later rj, is discarded
to_discard(ri, rj) ==
    LET s1 == ri.start  e1 == ri.end
        s2 == rj.start  e2 == rj.end
        term1 == ri.matching_term
        term2 == rj.matching_term
    IN  IF s1 = s2 /\ e1 = e2
        THEN (IF Len(term1) > Len(term2) THEN rj ELSE ri)
        ELSE IF endswith(ri.text, term2) THEN ri
        ELSE IF s2 < s1 + Len(term1)
             THEN (IF Len(term2) > Len(term1) THEN ri ELSE rj)
             ELSE ri

\* the sweep with the overlap test 'e1 > e2' in place of 'e1 > s2'
discard_set_by_end(results) ==
    {to_discard(results[p[1]], results[p[2]]) :
        p \in {p \in (1..Len(results)) \X (1..Len(results)) :
                  p[1] < p[2] /\ results[p[1]].end > results[p[2]].end}}

\* lines 846-890: the results discarded by the sweep over all pairs
discard_set(results) ==
    {to_discard(results[p[1]], results[p[2]]) :
        p \in {p \in (1..Len(results)) \X (1..Len(results)) :
                  p[1] < p[2] /\ results[p[1]].end > results[p[2]].start}}

\* the pruning loop adding each kept result at the front of new_results
resolve_overlap_reversed(results) ==
    LET kept == SelectSeq(results, LAMBDA r : r \notin discard_set(results))
    IN  [i \in 1..Len(kept) |-> kept[Len(kept) + 1 - i]]

\* lines 897-903: the results that were not discarded, in their order
resolve_overlap(results) ==
    LET discarded == discard_set(results)
    IN  SelectSeq(results, LAMBDA r : r \notin discarded)

\* sorted(results, key=lambda x: x.start): a stable sort
RECURSIVE InsertByStart(_, _)
InsertByStart(sorted, r) ==
    IF sorted = <<>> THEN <<r>>
    ELSE IF Head(sorted).start <= r.start
         THEN <<Head(sorted)>> \o InsertByStart(Tail(sorted), r)
         ELSE <<r>> \o sorted

RECURSIVE SortFrom(_, _)
SortFrom(sorted, rest) ==
    IF rest = <<>> THEN sorted
    ELSE SortFrom(InsertByStart(sorted, Head(rest)), Tail(rest))

sort_by_start(results) == SortFrom(<<>>, results)

\* ------------------------------------------------------------------------
\* Cleaning the sentence

\* _str_vitals = \b(temperature|temp|t|hr|bp|pulse|p|rr?|o2sats?|o2 sats?|spo2|o2|fio2|wt|ht)
str_vitals ==
    Cat(<<WB, Alt(<<Lit(<<"t", "e", "m", "p", "e", "r", "a", "t", "u", "r", "e">>), Lit(<<"t", "e", "m", "p">>), Lit(<<"t">>), Lit(<<"h", "r">>),
                    Lit(<<"b", "p">>), Lit(<<"p", "u", "l", "s", "e">>), Lit(<<"p">>),
                    Cat(<<Lit(<<"r">>), Opt(Lit(<<"r">>))>>),
                    Cat(<<Lit(<<"o", "2", "s", "a", "t">>), Opt(Lit(<<"s">>))>>),
                    Cat(<<Lit(<<"o", "2", " ", "s", "a", "t">>), Opt(Lit(<<"s">>))>>),
                    Lit(<<"s", "p", "o", "2">>), Lit(<<"o", "2">>), Lit(<<"f", "i", "o", "2">>), Lit(<<"w", "t">>),
                    Lit(<<"h", "t">>)>>)>>)

\* _str_duration_start = \b(for|over|last|lasting|lasted|within|q\.?|each|every|once)
str_duration_start ==
    Cat(<<WB, Alt(<<Lit(<<"f", "o", "r">>), Lit(<<"o", "v", "e", "r">>), Lit(<<"l", "a", "s", "t">>), Lit(<<"l", "a", "s", "t", "i", "n", "g">>),
                    Lit(<<"l", "a", "s", "t", "e", "d">>), Lit(<<"w", "i", "t", "h", "i", "n">>),
                    Cat(<<Lit(<<"q">>), Opt(Chr({"."}))>>),
                    Lit(<<"e", "a", "c", "h">>), Lit(<<"e", "v", "e", "r", "y">>), Lit(<<"o", "n", "c", "e">>)>>)>>)

\* _str_duration_amt = (hours?|hrs|hr\.?|minutes?|mins|min\.?|seconds?|secs|sec\.?|
\*                      days?|weeks?|wks|wk\.?|months?|mos|mo\.|years?|yrs\.?|yr\.?)
str_duration_amt ==
    Alt(<<Cat(<<Lit(<<"h", "o", "u", "r">>), Opt(Lit(<<"s">>))>>), Lit(<<"h", "r", "s">>),
          Cat(<<Lit(<<"h", "r">>), Opt(Chr({"."}))>>),
          Cat(<<Lit(<<"m", "i", "n", "u", "t", "e">>), Opt(Lit(<<"s">>))>>), Lit(<<"m", "i", "n", "s">>),
          Cat(<<Lit(<<"m", "i", "n">>), Opt(Chr({"."}))>>),
          Cat(<<Lit(<<"s", "e", "c", "o", "n", "d">>), Opt(Lit(<<"s">>))>>), Lit(<<"s", "e", "c", "s">>),
          Cat(<<Lit(<<"s", "e", "c">>), Opt(Chr({"."}))>>),
          Cat(<<Lit(<<"d", "a", "y">>), Opt(Lit(<<"s">>))>>),
          Cat(<<Lit(<<"w", "e", "e", "k">>), Opt(Lit(<<"s">>))>>), Lit(<<"w", "k", "s">>),
          Cat(<<Lit(<<"w", "k">>), Opt(Chr({"."}))>>),
          Cat(<<Lit(<<"m", "o", "n", "t", "h">>), Opt(Lit(<<"s">>))>>), Lit(<<"m", "o", "s">>), Lit(<<"m", "o", ".">>),
          Cat(<<Lit(<<"y", "e", "a", "r">>), Opt(Lit(<<"s">>))>>),
          Cat(<<Lit(<<"y", "r", "s">>), Opt(Chr({"."}))>>),
          Cat(<<Lit(<<"y", "r">>), Opt(Chr({"."}))>>)>>)

\* _str_duration = duration_range | duration1 | duration2
str_duration ==
    Alt(<<Cat(<<str_duration_start, Star(Chr(White)), str_words, str_range,
                Star(Chr(White)), Grp("dur_amt", str_duration_amt)>>),
          Cat(<<str_num, Star(Chr(White)), Grp("dur_amt1", str_duration_amt)>>),
          Cat(<<str_duration_start, Star(Chr(White)), str_words, str_num,
                Star(Chr(White)), str_duration_amt>>)>>)

\* _erase: overwrite characters [start, end) with blanks
erase(sentence, start, end) ==
    Slice(sentence, 0, start) \o [i \in 1..(end - start) |-> " "]
        \o Slice(sentence, end, Len(sentence))

\* lines 1050-1066: a duration is erased unless its amount is 'hr' and the
\* sentence names another vital sign
erase_it(sentence, original, m) ==
    LET duration == group(original, m, "dur_amt1")
        others == SelectSeq(finditer(str_vitals, sentence),
                            LAMBDA v : group0(sentence, v) # <<"h", "r">>)
    IN  ~(duration # NoneStr /\ duration = <<"h", "r">> /\ Len(others) > 0)

\* _erase_durations: the matches are those of the sentence as it came in
erase_durations(sentence) ==
    LET ms == finditer(str_duration, sentence)
        f[i \in 0..Len(ms)] ==
            IF i = 0 THEN sentence
            ELSE IF erase_it(f[i - 1], sentence, ms[i])
                 THEN erase(f[i - 1], mstart(ms[i]), mend(ms[i]))
                 ELSE f[i - 1]
    IN  f[Len(ms)]

\* _common_clean on one string
common_clean(text, is_case_sensitive) ==
    LET replaced == [i \in 1..Len(text) |->
                        IF text[i] \in whitespace_replace_chars THEN " " ELSE text[i]]
                            \o <<>>
    IN  IF is_case_sensitive THEN replaced ELSE lower(replaced)

\* _clean_sentence; found is what the date, size and time finders report
\* and the code erases: a sequence of <<start, end>> spans
clean_sentence(sentence, is_case_sensitive, found) ==
    LET cleaned == common_clean(sentence, is_case_sensitive)
        f[i \in 0..Len(found)] ==
            IF i = 0 THEN cleaned ELSE erase(f[i - 1], found[i][1], found[i][2])
    IN  erase_durations(f[Len(found)])

\* ------------------------------------------------------------------------
\* _extract_enumlist_values

\* re.finditer(re.escape(query_term), sentence): the starts of the matches
term_starts(query_term, sentence) ==
    LET ms == finditer(Lit(query_term), sentence)
    IN  [i \in 1..Len(ms) |-> mstart(ms[i])] \o <<>>

RECURSIVE InsertInt(_, _)
InsertInt(sorted, x) ==
    IF sorted = <<>> THEN <<x>>
    ELSE IF Head(sorted) <= x THEN <<Head(sorted)>> \o InsertInt(Tail(sorted), x)
    ELSE <<x>> \o sorted

RECURSIVE SortInts(_, _)
SortInts(sorted, rest) ==
    IF rest = <<>> THEN sorted ELSE SortInts(InsertInt(sorted, Head(rest)), Tail(rest))


\* lines 498-512: the sorted start offsets of all query terms
boundaries_of(query_terms, sentence) ==
    SortInts(<<>>, Concat([i \in 1..Len(query_terms) |->
                              term_starts(query_terms[i], sentence)]))

\* list.index(x): the 0-based index of the first x, or -1 for ValueError
index_of(list, x) ==
    LET hits == {i \in 1..Len(list) : list[i] = x}
    IN  IF hits = {} THEN -1 ELSE (CHOOSE i \in hits : \A h \in hits : i <= h) - 1

\* lines 557-562: the longest filter word found in 'words' before 'end'
\* (the first of the longest, in the order of the filter list)
filter_hits(filter_words, words, words_start, end) ==
    {k \in 1..Len(filter_words) :
        LET pos == find(words, filter_words[k])
        IN  pos # -1 /\ words_start + pos < end}

chosen_word(filter_words, hits) ==
    IF \A k \in hits : Len(filter_words[k]) = 0 THEN <<>>
    ELSE filter_words[CHOOSE k \in hits :
            /\ \A h \in hits : Len(filter_words[h]) <= Len(filter_words[k])
            /\ \A h \in hits : Len(filter_words[h]) = Len(filter_words[k]) => k <= h]

\* lines 529-570: one match of one query term; st is <<results, found_it>>,
\* and found_it stays set from one match of the term to the next
enum_step(s, st, m, query_term, filter_words, boundaries) ==
    LET start == mstart(m)
        index == index_of(boundaries, start)
        next == boundaries[index + 2]
        end == IF index < Len(boundaries) - 1 /\ mend(m) > next THEN next ELSE mend(m)
        hits == filter_hits(filter_words, group(s, m, "words"), gstart(m, "words"), end)
        found_it == st[2] \/ hits # {}
        word == chosen_word(filter_words, hits)
    IN  IF index = -1 THEN st
        ELSE IF found_it
        THEN <<Append(st[1], ValueMeasurement(word, start, end, word, EMPTY_FIELD,
                                              STR_EQUAL, query_term)), TRUE>>
        ELSE <<st[1], FALSE>>

\* the query of lines 522-525: term(?P<words>\s*(enumlist_value\s*){0,8})
str_enum_query(query_term) ==
    Cat(<<Lit(query_term),
          Grp("words", Cat(<<Star(Chr(White)),
                             Rep(Cat(<<str_enumlist_value, Star(Chr(White))>>),
                                 0, 8, TRUE)>>))>>)

enum_term_results(s, query_term, filter_words, boundaries) ==
    LET ms == finditer(str_enum_query(query_term), s)
        f[i \in 0..Len(ms)] ==
            IF i = 0 THEN <<<<>>, FALSE>>
            ELSE enum_step(s, f[i - 1], ms[i], query_term, filter_words, boundaries)
    IN  f[Len(ms)][1]

extract_enumlist_values(query_terms, sentence, filter_words) ==
    LET boundaries == boundaries_of(query_terms, sentence)
    IN  IF Len(boundaries) = 0 THEN <<>>
        ELSE Concat([i \in 1..Len(query_terms) |->
                        enum_term_results(sentence, query_terms[i], filter_words,
                                          boundaries)])

\* ------------------------------------------------------------------------
\* run(): the local computations

\* lines 1235-1239: the stripped terms, longest first (a stable sort)
RECURSIVE InsertByLength(_, _)
InsertByLength(sorted, t) ==
    IF sorted = <<>> THEN <<t>>
    ELSE IF Len(Head(sorted)) >= Len(t)
         THEN <<Head(sorted)>> \o InsertByLength(Tail(sorted), t)
         ELSE <<t>> \o sorted

RECURSIVE SortByLength(_, _)
SortByLength(sorted, rest) ==
    IF rest = <<>> THEN sorted
    ELSE SortByLength(InsertByLength(sorted, Head(rest)), Tail(rest))

split_terms(term_string) ==
    LET parts == split(term_string, ",")
    IN  SortByLength(<<>>, [i \in 1..Len(parts) |-> strip(parts[i])] \o <<>>)

\* lines 1244, 1254-1255: the terms as they are searched for
clean_terms(original_terms, is_case_sensitive) ==
    [i \in 1..Len(original_terms) |->
        LET t == common_clean(original_terms[i], is_case_sensitive)
        IN  IF is_case_sensitive THEN t ELSE lower(t)] \o <<>>

\* lines 1246-1258: the filter terms of an enumerated list
filter_terms_of(enumlist, is_case_sensitive) ==
    LET parts == split(enumlist, ",")
    IN  [i \in 1..Len(parts) |->
            IF is_case_sensitive THEN strip(parts[i]) ELSE lower(strip(parts[i]))] \o <<>>

\* 'if enumlist:' is false for None and for the empty string
has_enumlist(enumlist) == enumlist # NoneStr /\ Len(enumlist) > 0

\* lines 1275-1281: a bound given as a fraction is cut to its numerator
bound_text(str_bound) ==
    LET pos == find(str_bound, <<"/">>)
    IN  IF pos # -1 THEN split(str_bound, "/")[1] ELSE str_bound

\* float() of a bound: a run of digits with an optional sign
is_float(text) ==
    LET t == strip(text)
    IN  IF Len(t) > 0 /\ t[1] = "-" THEN IsNumeral(Tail(t)) ELSE IsNumeral(t)

to_float(text) ==
    LET t == strip(text)
    IN  IF t[1] = "-" THEN 0 - ToNumber(Tail(t)) ELSE ToNumber(t)

\* lines 1227-1230, 1273-1284: the bounds; ok is false when float() raises a
\* ValueError.  The defaults are set only when enumlist is None, so an empty
\* enumlist with a bound left out makes float(None) raise a TypeError.
bounds_of(str_minval, str_maxval) ==
    With(<<IF str_minval = NoneStr THEN NoneStr ELSE bound_text(str_minval),
           IF str_maxval = NoneStr THEN NoneStr ELSE bound_text(str_maxval)>>,
         LAMBDA t :
            [ok |-> (t[1] = NoneStr \/ is_float(t[1])) /\ (t[2] = NoneStr \/ is_float(t[2])),
             minval |-> IF t[1] = NoneStr THEN 0 - FLOAT_MAX
                        ELSE IF is_float(t[1]) THEN to_float(t[1]) ELSE 0,
             maxval |-> IF t[2] = NoneStr THEN FLOAT_MAX
                        ELSE IF is_float(t[2]) THEN to_float(t[2]) ELSE 0])

\* lines 1291-1298: the results of the terms, one term after the other; the
\* first exception ends the call
collect(per_term, sentence, minval, maxval) ==
    With({i \in DOMAIN per_term : per_term[i].err # NoError},
         LAMBDA errors :
            IF errors # {}
            THEN [err |-> per_term[CHOOSE i \in errors : \A j \in errors : i <= j].err,
                  sentence |-> sentence, candidates |-> <<>>, results |-> <<>>,
                  minval |-> minval, maxval |-> maxval]
            ELSE [err |-> NoError, sentence |-> sentence,
                  candidates |-> Concat([i \in DOMAIN per_term |-> per_term[i].candidates]),
                  results |-> Concat([i \in DOMAIN per_term |-> per_term[i].results]),
                  minval |-> minval, maxval |-> maxval])

\* lines 1286-1298 for cleaned terms, bounds b and a cleaned sentence
extract_terms(q, terms, b, sentence) ==
    IF has_enumlist(q.enumlist)
    THEN With(extract_enumlist_values(terms, sentence,
                                      filter_terms_of(q.enumlist, q.is_case_sensitive)),
              LAMBDA found :
                [err |-> NoError, sentence |-> sentence, candidates |-> found,
                 results |-> found, minval |-> 0, maxval |-> 0])
    ELSE With([i \in 1..Len(terms) |->
                    extract_value(terms[i], sentence, b.minval, b.maxval,
                                  q.is_denom_only)],
              LAMBDA per_term : collect(per_term, sentence, b.minval, b.maxval))

\* lines 1273-1298: from the bounds to the candidates of all terms; q is
\* the call's arguments.  candidates are the results before the
\* hypothetical filter, results those after it, both in the order found.
extract_all(q) ==
    With(bounds_of(q.str_minval, q.str_maxval),
         LAMBDA b :
            IF /\ ~has_enumlist(q.enumlist) /\ q.enumlist # NoneStr
               /\ (q.str_minval = NoneStr \/ q.str_maxval = NoneStr)
            THEN [err |-> "TypeError", sentence |-> q.sentence, candidates |-> <<>>,
                  results |-> <<>>, minval |-> 0, maxval |-> 0]
            ELSE IF ~has_enumlist(q.enumlist) /\ ~b.ok
            THEN [err |-> "ValueError", sentence |-> q.sentence, candidates |-> <<>>,
                  results |-> <<>>, minval |-> 0, maxval |-> 0]
            ELSE extract_terms(q,
                               clean_terms(split_terms(q.term_string),
                                           q.is_case_sensitive),
                               b,
                               clean_sentence(q.sentence, q.is_case_sensitive,
                                              q.found)))

\* ------------------------------------------------------------------------
\* _to_json

\* the first of the two numbers, whichever is smaller
Min2_first(a, b) == a

Min2(a, b) == IF a <= b THEN a ELSE b
Max2(a, b) == IF a >= b THEN a ELSE b

\* lines 340-370: one measurement of the output
measurement_json(m, original_sentence, is_text, dict) ==
    [text |-> Slice(original_sentence, m.start, m.end),
     start |-> m.start,
     end |-> m.end,
     condition |-> m.cond,
     matchingTerm |-> dict[m.matching_term],
     x |-> m.num1,
     y |-> m.num2,
     minValue |-> IF is_text THEN EMPTY_FIELD
                  ELSE IF m.num2 # EMPTY_FIELD THEN Min2(m.num1, m.num2) ELSE m.num1,
     maxValue |-> IF is_text THEN EMPTY_FIELD
                  ELSE IF m.num2 # EMPTY_FIELD THEN Max2(m.num1, m.num2) ELSE m.num1]

\* EMPTY_RESULT = '{}': a JSON object without fields
EMPTY_RESULT == [kind |-> "empty"]

\* an exception that reaches the caller
Raised(exc) == [kind |-> "error", exc |-> exc]

\* what run() hands back: kind is "json" for a record of _to_json, "empty"
\* for EMPTY_RESULT = '{}', which has no fields, and "error" for an exception
to_json(original_terms, original_sentence, results, is_text, dict) ==
    IF \E i \in 1..Len(results) : results[i].matching_term \notin DOMAIN dict
    THEN Raised("KeyError") ELSE
    [kind |-> "json",
     sentence |-> original_sentence,
     measurementCount |-> Len(results),
     terms |-> original_terms,
     querySuccess |-> Len(results) > 0,
     measurementList |-> [i \in 1..Len(results) |->
                            measurement_json(results[i], original_sentence,
                                             is_text, dict)]]

\* ------------------------------------------------------------------------
\* The calls of the model

Query(term_string, sentence, str_minval, str_maxval, enumlist,
      is_case_sensitive, is_denom_only, found) ==
    [term_string |-> term_string, sentence |-> sentence, str_minval |-> str_minval,
     str_maxval |-> str_maxval, enumlist |-> enumlist,
     is_case_sensitive |-> is_case_sensitive, is_denom_only |-> is_denom_only,
     found |-> found]

TermStrings == {<<"b", "p">>, <<"B", "P", ",", "b", "p">>, <<"h", "r", " ", "b", "p", ",", "b", "p">>}

Sentences == {<<"b", "p", " ", "f", "r", "o", "m", " ", "1", "2", "0", ",", " ", "b", "p", " ", "1", "3", "0">>,
              <<"b", "p", " ", "1", "2", "0", " ", "i", "f", " ", "b", "p", " ", "1", "2">>,
              <<"B", "P", " ", "1", "1", "0", "/", "7", "0", " ", "-", " ", "1", "2", "0", "/", "8", "0">>,
              <<"B", "P", " ", "1", "2", "0", "/", "8", "0", " ", "H", "R", " ", "6", "0">>,
              <<"i", "f", " ", "a", " ", "b", " ", "c", " ", "d", " ", "h", "r", " ", "b", "p", " ", "5">>,
              <<"h", "r", " ", "b", "p", " ", "5", ",", " ", "b", "p", " ", "1", "3", "0">>,
              <<"b", "p", " ", "9", "0", "-", "1", "1", "0">>,
              <<"b", "p", " ", "f", "r", "o", "m", " ", "9", "0", " ", "t", "o", " ", "1", "1", "0">>,
              <<"b", "p", " ", "9", "0", " ", "m", "m", " ", "-", " ", "1", "1", "0", " ", "m", "m">>,
              <<"b", "p", " ", "o", "k">>}

\* <<str_minval, str_maxval>>
Ranges == {<<NoneStr, NoneStr>>, <<<<"0">>, <<"1", "1", "5">>>>}

NumericQueries ==
    {Query(t, s, r[1], r[2], NoneStr, FALSE, FALSE, <<>>) :
        t \in TermStrings, s \in Sentences, r \in Ranges}

\* is_denom_only on the sentences with fractions
DenomQueries ==
    {Query(<<"b", "p">>, s, r[1], r[2], NoneStr, FALSE, TRUE, <<>>) :
        s \in {<<"B", "P", " ", "1", "1", "0", "/", "7", "0", " ", "-", " ", "1", "2", "0", "/", "8", "0">>, <<"B", "P", " ", "1", "2", "0", "/", "8", "0", " ", "H", "R", " ", "6", "0">>}, r \in Ranges}

CaseSensitiveQueries ==
    {Query(t, <<"B", "P", " ", "1", "2", "0", "/", "8", "0", " ", "H", "R", " ", "6", "0">>, NoneStr, NoneStr, NoneStr, TRUE, FALSE, <<>>) :
        t \in {<<"b", "p">>, <<"B", "P", ",", "b", "p">>, <<"H", "R">>}}

EnumQueries ==
    {Query(<<"b", "p", ",", "b", "p", "m">>, <<"b", "p", " ", "h", "i", "g", "h", ",", " ", "b", "p", "m", " ", "l", "o", "w">>, NoneStr, NoneStr, e, cs, FALSE, <<>>) :
        e \in {<<"h", "i", "g", "h", ",", "l", "o", "w">>, <<"l", "o", "w">>}, cs \in BOOLEAN}

\* a sentence in which the finders report a date, and one with a duration
ErasedQueries ==
    {Query(<<"b", "p">>, <<"b", "p", " ", "1", "2", "0", " ", "o", "n", " ", "5", "/", "6">>, NoneStr, NoneStr, NoneStr, FALSE, FALSE, f) :
        f \in {<<>>, <<<<10, 13>>>>}}
    \cup {Query(<<"b", "p">>, <<"b", "p", " ", "2", " ", "h", "r", "s", " ", "a", "g", "o", " ", "1", "2", "0">>, NoneStr, NoneStr, NoneStr, FALSE, FALSE, <<>>)}

\* bounds that float() rejects, an empty enumlist without bounds, and a
\* number with a comma in a range with units
RaisingQueries ==
    {Query(<<"b", "p">>, <<"b", "p", " ", "1", "1", "0">>, <<"x">>, <<"y">>, NoneStr, FALSE, FALSE, <<>>),
     Query(<<"b", "p">>, <<"b", "p", " ", "1", "1", "0">>, NoneStr, NoneStr, <<>>, FALSE, FALSE, <<>>),
     Query(<<"b", "p">>, <<"b", "p", " ", "1", ",", "0", "0", "0", " ", "m", "m", " ", "-", " ", "2", ",", "0", "0", "0", " ", "m", "m">>, NoneStr, NoneStr, NoneStr, FALSE, FALSE, <<>>)}

\* bounds with min > max, a fraction-form bound that float() rejects, and
\* fraction-form bounds that it accepts
BoundQueries ==
    {Query(<<"b", "p">>, <<"b", "p", " ", "1", "1", "0">>, <<"1", "1", "5">>, <<"0">>, NoneStr, FALSE, FALSE, <<>>),
     Query(<<"b", "p">>, <<"b", "p", " ", "1", "1", "0">>, <<"a", "/", "b">>, <<"2", "0", "0">>, NoneStr, FALSE, FALSE, <<>>),
     Query(<<"b", "p">>, <<"B", "P", " ", "1", "2", "0", "/", "8", "0", " ", "H", "R", " ", "6", "0">>, <<"1", "0", "0", "/", "6", "0">>, <<"1", "3", "0", "/", "9", "0">>, NoneStr, FALSE, FALSE, <<>>)}

\* candidates that are found out of the order of their offsets and overlap,
\* and a range whose second number is the smaller one
OrderQueries ==
    {Query(<<"h", "r", " ", "b", "p", ",", "b", "p">>, <<"b", "p", " ", "f", "r", "o", "m", " ", "1", "2", "0", ",", " ", "h", "r", " ", "b", "p", " ", "5">>, NoneStr, NoneStr, NoneStr, FALSE, FALSE, <<>>),
     Query(<<"b", "p">>, <<"b", "p", " ", "1", "1", "0", "-", "9", "0", ",", " ", "b", "p", " ", "1", "3", "0">>, NoneStr, NoneStr, NoneStr, FALSE, FALSE, <<>>)}

\* a call where a later pattern family matches across a span that an earlier
\* family has claimed
FamilyQueries ==
    {Query(<<"b", "p">>, <<"b", "p", " ", "1", "1", "0", "-", "9", "0", " ", "b", "p", " ", "1", "2", "0">>, NoneStr, NoneStr, NoneStr, FALSE, FALSE, <<>>)}

\* a call whose sentence has the same measurement twice, once right after a
\* trigger and once WINDOW words after it
RepeatedQueries ==
    {Query(<<"b", "p">>, <<"i", "f", " ", "b", "p", " ", "1", " ", "a", " ", "a", " ", "a", " ", "b", "p", " ", "1">>, NoneStr, NoneStr, NoneStr, FALSE, FALSE, <<>>)}

\* calls whose candidates overlap in the ways _resolve_overlap tells apart:
\* identical spans, the value of one inside the term of the next, terms
\* that overlap, terms that do not
OverlapQueries ==
    {Query(t[1], t[2], NoneStr, NoneStr, NoneStr, FALSE, FALSE, <<>>) :
        t \in {<<<<"o", "2", " ", "o", "2", ",", "o", "2">>, <<"o", "2", " ", "o", "2", " ", "o", "2">>>>,
               <<<<"o", "2", " ", "s", "a", "t", ",", "o", "2", ",", "s", "a", "t", ",", "o">>, <<"o", "2", " ", "s", "a", "t", " ", "1", "0", "0", ",", " ", "o", "2", " ", "5">>>>,
               <<<<"o", "2", ",", "o">>, <<"o", "2", " ", "o", "2", " ", "5">>>>,
               <<<<"b", "p", " ", "s", "y", "s", ",", "s", "y", "s", " ", "m", "e", "a", "n", ",", "s", "y", "s">>, <<"b", "p", " ", "s", "y", "s", " ", "m", "e", "a", "n", " ", "1", "2", "0">>>>,
               <<<<"p", "t", ",", "p", "t", "t">>, <<"p", "t", " ", "p", "t", "t", " ", "5">>>>,
               <<<<"r", "r", ",", "s", "a", "o", "2">>, <<"r", "r", " ", "s", "a", "o", "2", " ", "9", "6">>>>,
               <<<<"s", "a", "t", " ", "5", ",", "5", " ", "s", "a", "t">>, <<"s", "a", "t", " ", "5", " ", "s", "a", "t", " ", "5">>>>}}

\* term_string = ''
EmptyTermQueries ==
    {Query(<<>>, s, NoneStr, NoneStr, NoneStr, FALSE, FALSE, <<>>) :
        s \in {<<"b", "p", " ", "1", "2", "0", " ", "i", "f", " ", "b", "p", " ", "1", "2">>, <<"b", "p", " ", "o", "k">>}}

\* term_string = None
MissingTermQueries ==
    {Query(NoneStr, <<"b", "p", " ", "1", "2", "0">>, NoneStr, NoneStr, NoneStr, FALSE, FALSE, <<>>)}

Queries ==
    NumericQueries \cup DenomQueries \cup CaseSensitiveQueries \cup EnumQueries
        \cup ErasedQueries \cup RaisingQueries \cup BoundQueries \cup OrderQueries
        \cup FamilyQueries \cup RepeatedQueries
        \cup EmptyTermQueries
        \cup MissingTermQueries

\* the calls whose term lists differ in case only
CaseQueries ==
    {Query(t, <<"b", "p", " ", "1", "2", "0">>, NoneStr, NoneStr, NoneStr, FALSE, FALSE, <<>>) :
        t \in {<<"B", "P">>, <<"b", "p">>, <<"B", "P", ",", "b", "p">>}}

\* lines 1273-1298 for every call of the model that gets that far
Extraction ==
    [q \in {q \in Queries \cup CaseQueries \cup OverlapQueries : q.term_string # NoneStr} |->
        extract_all(q)]

Threads == {1, 2}

\* the number of calls in a behaviour of SpecSeq and SpecPar
MaxCalls == 3

\* line 1269 run only for the terms before the last one
map_term_skip_last(dict, terms, original_terms, i) ==
    IF i < Len(terms) THEN (terms[i] :> original_terms[i]) @@ dict ELSE dict

\* line 1269: _term_dict[new_term] = original_term
map_term(dict, terms, original_terms, i) == (terms[i] :> original_terms[i]) @@ dict

\* ------------------------------------------------------------------------
\* covid_finder.py: number words

\* line 83: _TRACE = False, the switch of the diagnostic printing
TRACE == FALSE

\* lines 152-160: _tnum_to_int_map
tnum_to_int_map ==
    (<<"o", "n", "e">> :> 1) @@ (<<"t", "w", "o">> :> 2) @@ (<<"t", "h", "r", "e", "e">> :> 3) @@ (<<"f", "o", "u", "r">> :> 4) @@
    (<<"f", "i", "v", "e">> :> 5) @@ (<<"s", "i", "x">> :> 6) @@ (<<"s", "e", "v", "e", "n">> :> 7) @@ (<<"e", "i", "g", "h", "t">> :> 8) @@
    (<<"n", "i", "n", "e">> :> 9) @@ (<<"t", "e", "n">> :> 10) @@ (<<"e", "l", "e", "v", "e", "n">> :> 11) @@ (<<"t", "w", "e", "l", "v", "e">> :> 12) @@
    (<<"t", "h", "i", "r", "t", "e", "e", "n">> :> 13) @@ (<<"f", "o", "u", "r", "t", "e", "e", "n">> :> 14) @@ (<<"f", "i", "f", "t", "e", "e", "n">> :> 15) @@
    (<<"s", "i", "x", "t", "e", "e", "n">> :> 16) @@ (<<"s", "e", "v", "e", "n", "t", "e", "e", "n">> :> 17) @@ (<<"e", "i", "g", "h", "t", "e", "e", "n">> :> 18) @@
    (<<"n", "i", "n", "e", "t", "e", "e", "n">> :> 19) @@ (<<"t", "w", "e", "n", "t", "y">> :> 20) @@ (<<"t", "h", "i", "r", "t", "y">> :> 30) @@
    (<<"f", "o", "r", "t", "y">> :> 40) @@ (<<"f", "i", "f", "t", "y">> :> 50) @@ (<<"s", "i", "x", "t", "y">> :> 60) @@
    (<<"s", "e", "v", "e", "n", "t", "y">> :> 70) @@ (<<"e", "i", "g", "h", "t", "y">> :> 80) @@ (<<"n", "i", "n", "e", "t", "y">> :> 90) @@
    (<<"z", "e", "r", "o">> :> 0)

\* lines 171-185: _enum_to_int_map; the key for 19 is spelled 'ninenteenth'
enum_to_int_map ==
    (<<"z", "e", "r", "o", "t", "h">> :> 0) @@
    (<<"f", "i", "r", "s", "t">> :> 1) @@ (<<"1", "s", "t">> :> 1) @@ (<<"s", "e", "c", "o", "n", "d">> :> 2) @@ (<<"2", "n", "d">> :> 2) @@
    (<<"t", "h", "i", "r", "d">> :> 3) @@ (<<"3", "r", "d">> :> 3) @@ (<<"f", "o", "u", "r", "t", "h">> :> 4) @@ (<<"4", "t", "h">> :> 4) @@
    (<<"f", "i", "f", "t", "h">> :> 5) @@ (<<"5", "t", "h">> :> 5) @@ (<<"s", "i", "x", "t", "h">> :> 6) @@ (<<"6", "t", "h">> :> 6) @@
    (<<"s", "e", "v", "e", "n", "t", "h">> :> 7) @@ (<<"7", "t", "h">> :> 7) @@ (<<"e", "i", "g", "h", "t", "h">> :> 8) @@ (<<"8", "t", "h">> :> 8) @@
    (<<"n", "i", "n", "t", "h">> :> 9) @@ (<<"9", "t", "h">> :> 9) @@ (<<"t", "e", "n", "t", "h">> :> 10) @@ (<<"1", "0", "t", "h">> :> 10) @@
    (<<"e", "l", "e", "v", "e", "n", "t", "h">> :> 11) @@ (<<"1", "1", "t", "h">> :> 11) @@ (<<"t", "w", "e", "l", "f", "t", "h">> :> 12) @@
    (<<"1", "2", "t", "h">> :> 12) @@ (<<"t", "h", "i", "r", "t", "e", "e", "n", "t", "h">> :> 13) @@ (<<"1", "3", "t", "h">> :> 13) @@
    (<<"f", "o", "u", "r", "t", "e", "e", "n", "t", "h">> :> 14) @@ (<<"1", "4", "t", "h">> :> 14) @@ (<<"f", "i", "f", "t", "e", "e", "n", "t", "h">> :> 15) @@
    (<<"1", "5", "t", "h">> :> 15) @@ (<<"s", "i", "x", "t", "e", "e", "n", "t", "h">> :> 16) @@ (<<"1", "6", "t", "h">> :> 16) @@
    (<<"s", "e", "v", "e", "n", "t", "e", "e", "n", "t", "h">> :> 17) @@ (<<"1", "7", "t", "h">> :> 17) @@ (<<"e", "i", "g", "h", "t", "e", "e", "n", "t", "h">> :> 18) @@
    (<<"1", "8", "t", "h">> :> 18) @@ (<<"n", "i", "n", "e", "n", "t", "e", "e", "n", "t", "h">> :> 19) @@ (<<"1", "9", "t", "h">> :> 19) @@
    (<<"t", "w", "e", "n", "t", "i", "e", "t", "h">> :> 20) @@ (<<"2", "0", "t", "h">> :> 20) @@ (<<"t", "h", "i", "r", "t", "i", "e", "t", "h">> :> 30) @@
    (<<"3", "0", "t", "h">> :> 30) @@ (<<"f", "o", "r", "t", "i", "e", "t", "h">> :> 40) @@ (<<"4", "0", "t", "h">> :> 40) @@
    (<<"f", "i", "f", "t", "i", "e", "t", "h">> :> 50) @@ (<<"5", "0", "t", "h">> :> 50) @@ (<<"s", "i", "x", "t", "i", "e", "t", "h">> :> 60) @@
    (<<"6", "0", "t", "h">> :> 60) @@ (<<"s", "e", "v", "e", "n", "t", "i", "e", "t", "h">> :> 70) @@ (<<"7", "0", "t", "h">> :> 70) @@
    (<<"e", "i", "g", "h", "t", "i", "e", "t", "h">> :> 80) @@ (<<"8", "0", "t", "h">> :> 80) @@ (<<"n", "i", "n", "e", "t", "i", "e", "t", "h">> :> 90) @@
    (<<"9", "0", "t", "h">> :> 90)

\* line 135: _str_tnum_digit = \b(one|two|three|four|five|six|seven|eight|nine|zero)
str_tnum_digit ==
    Cat(<<WB, Alt(<<Lit(<<"o", "n", "e">>), Lit(<<"t", "w", "o">>), Lit(<<"t", "h", "r", "e", "e">>), Lit(<<"f", "o", "u", "r">>),
                    Lit(<<"f", "i", "v", "e">>), Lit(<<"s", "i", "x">>), Lit(<<"s", "e", "v", "e", "n">>), Lit(<<"e", "i", "g", "h", "t">>),
                    Lit(<<"n", "i", "n", "e">>), Lit(<<"z", "e", "r", "o">>)>>)>>)

\* line 150: _regex_hundreds = _str_tnum_digit + [-\s]?hundred[-\s]?
\* (IGNORECASE changes nothing: run() lowers the sentence before it matches)
regex_hundreds ==
    Cat(<<str_tnum_digit, Opt(Chr({"-"} \cup White)), Lit(<<"h", "u", "n", "d", "r", "e", "d">>),
          Opt(Chr({"-"} \cup White))>>)

\* what a conversion hands back: an int, None, or an exception that leaves it
Value(n) == [kind |-> "value", val |-> n]
NoValue == [kind |-> "none"]
Raises(e) == [kind |-> "raise", error |-> e]

\* re.sub(r'\-', ' ', s)
DashesToSpaces(s) == [i \in DOMAIN s |-> IF s[i] = "-" THEN " " ELSE s[i]]

\* re.sub(r'\s+', ' ', s)
RECURSIVE CollapseWhite(_)
CollapseWhite(s) ==
    IF s = <<>> THEN <<>>
    ELSE IF Head(s) \in White
         THEN <<" ">> \o CollapseWhite(LStrip(s))
         ELSE <<Head(s)>> \o CollapseWhite(Tail(s))

\* s.split(): the words between runs of white space, none of them empty
split_words(s) == SelectSeq(re_split(s, White), LAMBDA w : w # <<>>)

\* lines 466-477: _to_int. The test at line 470 looks for a comma in the
\* module's pattern _str_int, which has one, so the commas are always removed
to_int(str_int) ==
    IF IsNumeral(RemoveCommas(str_int)) THEN Value(ToNumber(RemoveCommas(str_int)))
    ELSE Raises("ValueError")

\* lines 481-491: _enum_to_int
enum_to_int(str_enum) ==
    LET text == strip(str_enum)
    IN  IF text \in DOMAIN enum_to_int_map THEN Value(enum_to_int_map[text])
        ELSE NoValue

\* lines 542-559 of _tnum_to_int: the tens and the ones, from the words that
\* follow the hundreds. Every 'return None' of an invalid number is inside
\* 'if _TRACE:', so without tracing the code goes on to the lookup
tnum_words(val_h, words) ==
    IF Len(words) > 2 THEN Raises("AssertionError")
    ELSE IF Len(words) = 2
    THEN IF words[1] \in DOMAIN tnum_to_int_map /\ words[2] \in DOMAIN tnum_to_int_map
         THEN Value(100 * val_h + tnum_to_int_map[words[1]] + tnum_to_int_map[words[2]])
         ELSE IF TRACE THEN NoValue ELSE Raises("KeyError")
    ELSE IF Len(words) = 0 THEN Raises("IndexError")
    ELSE IF words[1] \in DOMAIN tnum_to_int_map
         THEN Value(100 * val_h + tnum_to_int_map[words[1]])
         ELSE IF TRACE THEN NoValue ELSE Raises("KeyError")

\* lines 536-540 of _tnum_to_int: 'and' is stripped from what follows the
\* hundreds, pos = text.find('and')
tnum_tens(val_h, text, pos) ==
    tnum_words(val_h,
               split_words(IF pos # -1 THEN strip(Slice(text, pos + 3, Len(text)))
                           ELSE text))

\* lines 521-563 of _tnum_to_int: the hundreds, where tnum is the first word
\* of the match of _regex_hundreds; a first word outside the map leaves the
\* text as it is
tnum_hundreds(text, match_end, tnum) ==
    IF tnum \in DOMAIN tnum_to_int_map
    THEN IF Len(strip(Slice(text, match_end, Len(text)))) > 0
         THEN tnum_tens(tnum_to_int_map[tnum], strip(Slice(text, match_end, Len(text))),
                        find(strip(Slice(text, match_end, Len(text))), <<"a", "n", "d">>))
         ELSE Value(100 * tnum_to_int_map[tnum])
    ELSE IF TRACE THEN NoValue
    ELSE tnum_tens(0, text, find(text, <<"a", "n", "d">>))

\* lines 514-531 of _tnum_to_int, text being the capture with its dashes
\* replaced and its white space collapsed
tnum_lookup(text, match) ==
    IF text \in DOMAIN tnum_to_int_map THEN Value(tnum_to_int_map[text])
    ELSE IF match.ok
    THEN tnum_hundreds(text, mend(match), strip(split_words(group0(text, match))[1]))
    ELSE IF Len(text) > 0 THEN tnum_tens(0, text, find(text, <<"a", "n", "d">>))
    ELSE Value(0)

tnum_text(text) == tnum_lookup(text, MatchAt(regex_hundreds, text, 1))

\* lines 495-563: _tnum_to_int
tnum_to_int(str_tnum) == tnum_text(strip(CollapseWhite(DashesToSpaces(str_tnum))))

\* ------------------------------------------------------------------------
\* covid_finder.py: run()

\* line 85-86
STR_THOUSAND == <<"t", "h", "o", "u", "s", "a", "n", "d">>
STR_MILLION == <<"m", "i", "l", "l", "i", "o", "n">>

\* match.groupdict()[key] where the captures that took part in the match are
\* the pairs <<key, text>>: None for a group that took no part
GroupValue(groupdict, key) ==
    LET hits == {j \in DOMAIN groupdict : groupdict[j][1] = key}
    IN  IF hits = {} THEN NoneStr ELSE groupdict[CHOOSE j \in hits : TRUE][2]

\* lines 724-740: the conversion of one capture. A key with no branch of its
\* own (int_from, floatunits) leaves val at None. The numerals before a unit
\* word have no decimal point in the model
convert(k, v, groupdict) ==
    IF k = "int_to" \/ k = "int" THEN to_int(v)
    ELSE IF k = "tnum_to" \/ k = "tnum" THEN tnum_to_int(v)
    ELSE IF k = "enum_to" \/ k = "enum" THEN enum_to_int(v)
    ELSE IF k = "floatnum"
    THEN LET str_units == GroupValue(groupdict, "floatunits")
         IN  Value(IF str_units = STR_THOUSAND THEN ToNumber(v) * 1000
                   ELSE IF str_units = STR_MILLION THEN ToNumber(v) * 1000000
                   ELSE ToNumber(v))
    ELSE IF k = "no" THEN Value(0)
    ELSE NoValue

\* lines 716-747: the loop over the captures of one candidate, from capture j
\* on: the values it appends to value_case_list, or the exception that ends it
RECURSIVE convert_from(_, _, _)
convert_from(groupdict, j, values) ==
    IF j > Len(groupdict) THEN [err |-> NoError, values |-> values]
    ELSE LET val == convert(groupdict[j][1], groupdict[j][2], groupdict)
         IN  IF val.kind = "raise" THEN [err |-> val.error, values |-> values]
             ELSE IF val.kind = "value"
             THEN convert_from(groupdict, j + 1, Append(values, val.val))
             ELSE convert_from(groupdict, j + 1, values)

\* a match object: its span, its text and the captures that took part
Match(start, end, matched, groupdict) ==
    [start |-> start, end |-> end, group |-> matched, groupdict |-> groupdict]

\* overlap.Candidate(start, end, match_text, regex, other=match), line 631
Candidate(start, end, match_text, other) ==
    [start |-> start, end |-> end, text |-> match_text, other |-> other]

\* what one of _CASE_REGEXES finds in a clause: the index of the regex, the
\* offset of the match in the clause, its stripped text and its captures.
\* inner is -1, or the offset at which _regex_case2 matches again in the rest
\* of the sentence after the first word of the match; group and groupdict
\* are those of the match that is kept, blank tells that the match takes
\* the blank that follows it
Find(regex, at, text, inner, matched, blank, groupdict) ==
    [regex |-> regex, at |-> at, text |-> text, inner |-> inner, group |-> matched,
     blank |-> blank, groupdict |-> groupdict]

\* a clause in which only _regex_case9 matches, from its first to its last
\* character
Plain(text, groupdict) ==
    [text |-> text, found |-> <<Find(9, 0, text, -1, text, FALSE, groupdict)>>]

\* the clauses the model's sentences are made of, each with what
\* _CASE_REGEXES find in it
Clauses ==
    <<Plain(<<"1", "2", " ", "c", "a", "s", "e", "s">>, <<<<"int", <<"1", "2">>>>>>),
      Plain(<<"1", ",", "0", "0", "0", " ", "c", "a", "s", "e", "s">>, <<<<"int", <<"1", ",", "0", "0", "0">>>>>>),
      Plain(<<"f", "i", "v", "e", " ", "c", "a", "s", "e", "s">>, <<<<"tnum", <<"f", "i", "v", "e">>>>>>),
      Plain(<<"f", "o", "r", "t", "y", "-", "f", "o", "u", "r", " ", "c", "a", "s", "e", "s">>, <<<<"tnum", <<"f", "o", "r", "t", "y", "-", "f", "o", "u", "r">>>>>>),
      Plain(<<"t", "w", "o", " ", "h", "u", "n", "d", "r", "e", "d", " ", "c", "a", "s", "e", "s">>, <<<<"tnum", <<"t", "w", "o", " ", "h", "u", "n", "d", "r", "e", "d", " ">>>>>>),
      Plain(<<"o", "n", "e", " ", "h", "u", "n", "d", "r", "e", "d", " ", "a", "n", "d", " ", "t", "w", "e", "n", "t", "y", " ", "o", "n", "e", " ", "c", "a", "s", "e", "s">>,
            <<<<"tnum", <<"o", "n", "e", " ", "h", "u", "n", "d", "r", "e", "d", " ", "a", "n", "d", " ", "t", "w", "e", "n", "t", "y", " ", "o", "n", "e">>>>>>),
      Plain(<<"o", "n", "e", " ", "h", "u", "n", "d", "r", "e", "d", " ", "a", "n", "d", " ", "c", "a", "s", "e", "s">>, <<<<"tnum", <<"o", "n", "e", " ", "h", "u", "n", "d", "r", "e", "d", " ", "a", "n", "d", " ">>>>>>),
      Plain(<<"t", "h", "i", "r", "d", " ", "c", "a", "s", "e">>, <<<<"enum", <<"t", "h", "i", "r", "d">>>>>>),
      Plain(<<"n", "o", " ", "n", "e", "w", " ", "c", "a", "s", "e", "s">>, <<<<"no", <<"n", "o">>>>>>),
      Plain(<<"3", " ", "m", "i", "l", "l", "i", "o", "n", " ", "c", "a", "s", "e", "s">>,
            <<<<"floatnum", <<"3">>>>, <<"floatunits", <<"m", "i", "l", "l", "i", "o", "n">>>>>>),
      [text |-> <<"t", "h", "e", " ", "c", "o", "u", "n", "t", "y", " ", "h", "e", "a", "l", "t", "h", " ", "o", "f", "f", "i", "c", "e", " ", "s", "a", "i", "d", " ", "t", "h", "r", "e", "e", " ", "o", "f", " ", "f", "i", "v", "e", " ", "c", "o", "v", "i", "d", " ", "c", "a", "s", "e", "s">>,
       found |-> <<Find(2, 30, <<"t", "h", "r", "e", "e", " ", "o", "f", " ", "f", "i", "v", "e", " ", "c", "o", "v", "i", "d", " ", "c", "a", "s", "e", "s">>, 4, <<"f", "i", "v", "e", " ", "c", "o", "v", "i", "d", " ", "c", "a", "s", "e", "s">>,
                        FALSE, <<<<"tnum", <<"f", "i", "v", "e">>>>>>),
                   Find(9, 30, <<"t", "h", "r", "e", "e", " ", "o", "f", " ", "f", "i", "v", "e", " ", "c", "o", "v", "i", "d", " ", "c", "a", "s", "e", "s">>, -1,
                        <<"t", "h", "r", "e", "e", " ", "o", "f", " ", "f", "i", "v", "e", " ", "c", "o", "v", "i", "d", " ", "c", "a", "s", "e", "s">>, FALSE,
                        <<<<"tnum", <<"t", "h", "r", "e", "e">>>>>>)>>],
      [text |-> <<"5", "-", "y", "e", "a", "r", " ", "o", "l", "d", " ", "n", "i", "n", "e", "t", "e", "e", "n", "t", "h", " ", "c", "a", "s", "e", " ", "v", "i", "r", "u", "s">>,
       found |-> <<Find(3, 11, <<"n", "i", "n", "e", "t", "e", "e", "n", "t", "h", " ", "c", "a", "s", "e", " ", "v", "i", "r", "u", "s">>, -1, <<"n", "i", "n", "e", "t", "e", "e", "n", "t", "h", " ", "c", "a", "s", "e", " ", "v", "i", "r", "u", "s">>,
                        TRUE, <<<<"enum", <<"n", "i", "n", "e", "t", "e", "e", "n", "t", "h">>>>>>),
                   Find(9, 0, <<"5", "-", "y", "e", "a", "r", " ", "o", "l", "d", " ", "n", "i", "n", "e", "t", "e", "e", "n", "t", "h", " ", "c", "a", "s", "e">>, -1,
                        <<"5", "-", "y", "e", "a", "r", " ", "o", "l", "d", " ", "n", "i", "n", "e", "t", "e", "e", "n", "t", "h", " ", "c", "a", "s", "e">>, FALSE,
                        <<<<"int", <<"5">>>>>>)>>]>>

\* the loop over the captures for each match of the model, computed once: the
\* values the candidate adds to value_case_list, or the exception
Converted ==
    [groupdict \in UNION {{Clauses[j].found[f].groupdict : f \in DOMAIN Clauses[j].found} :
                            j \in DOMAIN Clauses} |->
        convert_from(groupdict, 1, <<>>)]

\* the sentences of the model: up to MaxClauses clauses joined by ' and '
MaxClauses == 2

CovidSentences == UNION {[1..k -> DOMAIN Clauses] : k \in 0..MaxClauses}

STR_AND == <<" ", "a", "n", "d", " ">>

\* the text of a sentence of the model
RECURSIVE SentenceText(_)
SentenceText(sentence) ==
    IF sentence = <<>> THEN <<>>
    ELSE IF Len(sentence) = 1 THEN Clauses[sentence[1]].text
    ELSE Clauses[sentence[1]].text \o STR_AND \o SentenceText(Tail(sentence))

\* the 0-based offset of clause j of a sentence
RECURSIVE clause_start(_, _)
clause_start(sentence, j) ==
    IF j = 1 THEN 0
    ELSE clause_start(sentence, j - 1) + Len(Clauses[sentence[j - 1]].text)
            + Len(STR_AND)

\* sorted(candidates, key=lambda x: x.end-x.start), line 646: a stable sort
RECURSIVE InsertBySpanLength(_, _)
InsertBySpanLength(sorted, c) ==
    IF sorted = <<>> THEN <<c>>
    ELSE IF Head(sorted).end - Head(sorted).start <= c.end - c.start
         THEN <<Head(sorted)>> \o InsertBySpanLength(Tail(sorted), c)
         ELSE <<c>> \o sorted

RECURSIVE sort_by_length(_, _)
sort_by_length(sorted, rest) ==
    IF rest = <<>> THEN sorted
    ELSE sort_by_length(InsertBySpanLength(sorted, Head(rest)), Tail(rest))

\* lines 591-602 and 629-632: the candidate of a find whose clause starts at
\* offset at. When _regex_case2 matches again in the rest of the sentence,
\* the second match replaces the first one: its offsets count from the start
\* of the rest, and the length is that of the text of the first match
candidate_of(found, at, matched) ==
    IF found.inner >= 0
    THEN Candidate(found.inner, found.inner + Len(found.text), found.text,
                   Match(found.inner, found.inner + Len(matched), matched, found.groupdict))
    ELSE Candidate(at + found.at, at + found.at + Len(found.text), found.text,
                   Match(at + found.at, at + found.at + Len(matched), matched, found.groupdict))

\* the candidates of the finds of one regex in a clause that starts at offset
\* at; last tells that nothing follows the clause
candidates_of(finds, at, last) ==
    [f \in DOMAIN finds |->
        candidate_of(finds[f], at,
                     IF finds[f].blank /\ ~last THEN finds[f].group \o <<" ">>
                     ELSE finds[f].group)]

\* the candidates of regex r in clause j of the sentence
clause_candidates(sentence, r, j) ==
    candidates_of(SelectSeq(Clauses[sentence[j]].found, LAMBDA x : x.regex = r),
                  clause_start(sentence, j), j = Len(sentence))

\* lines 572-575: regex.finditer(sentence) for regex r, clause after clause
RECURSIVE finditer_from(_, _, _)
finditer_from(sentence, r, j) ==
    IF j > Len(sentence) THEN <<>>
    ELSE clause_candidates(sentence, r, j) \o finditer_from(sentence, r, j + 1)

\* lines 571-572: the regexes of _CASE_REGEXES one after the other
RECURSIVE all_candidates(_, _)
all_candidates(sentence, r) ==
    IF r > 9 THEN <<>>
    ELSE finditer_from(sentence, r, 1) \o all_candidates(sentence, r + 1)

\* two candidates have a character in common
has_overlap(a, b) == a.start < b.end /\ b.start < a.end

\* overlap.remove_overlap(candidates, _TRACE, keep_longest=False) on a list
\* sorted by length: of candidates that overlap, the shortest is kept
RECURSIVE remove_overlap(_, _, _)
remove_overlap(candidates, i, kept) ==
    IF i > Len(candidates) THEN kept
    ELSE IF \E k \in DOMAIN kept : has_overlap(kept[k], candidates[i])
         THEN remove_overlap(candidates, i + 1, kept)
         ELSE remove_overlap(candidates, i + 1, Append(kept, candidates[i]))

\* lines 567-672: _regex_match on a sentence of the model
regex_match(sentence) ==
    remove_overlap(sort_by_length(<<>>, all_candidates(sentence, 0)), 1, <<>>)

\* a CovidTuple, without the fields of hospitalizations and deaths, which are
\* always empty (lines 763-773)
CovidTuple(case_start, case_end, text_case, value_case) ==
    [case_start |-> case_start, case_end |-> case_end, text_case |-> text_case,
     value_case |-> value_case]

\* sorted(results, key=lambda x: x.case_start), line 805: a stable sort
RECURSIVE InsertByCaseStart(_, _)
InsertByCaseStart(sorted, r) ==
    IF sorted = <<>> THEN <<r>>
    ELSE IF Head(sorted).case_start <= r.case_start
         THEN <<Head(sorted)>> \o InsertByCaseStart(Tail(sorted), r)
         ELSE <<r>> \o sorted

RECURSIVE sort_by_case_start(_, _)
sort_by_case_start(sorted, rest) ==
    IF rest = <<>> THEN sorted
    ELSE sort_by_case_start(InsertByCaseStart(sorted, Head(rest)), Tail(rest))

\* lines 749-801: result i takes the head of each list (pop(0)), as many
\* results as there are values
build_results(starts, ends, texts, values) ==
    [i \in 1..Len(values) |-> CovidTuple(starts[i], ends[i], texts[i], values[i])]

VARIABLES
    term_dict,  \* _term_dict: the module-level table that restores original terms
    pc,         \* where each thread is in run()
    args,       \* the arguments of each thread's call
    locals,     \* run()'s local variables
    out,        \* what the call returned or raised
    seen,       \* <<arguments, output>> of the first call with these arguments, in
                \* the order the calls returned
    calls,      \* the number of calls started
    covid,      \* covid_finder.run(): its position, its lists and what it returned
    app         \* a function called on its own: its name, its argument and what
                \* it returned

vars == <<term_dict, pc, args, locals, out, seen, calls, covid, app>>

NoArgs == Query(NoneStr, <<>>, NoneStr, NoneStr, NoneStr, FALSE, FALSE, <<>>)

NoExtraction ==
    [err |-> NoError, sentence |-> <<>>, candidates |-> <<>>, results |-> <<>>,
     minval |-> 0, maxval |-> 0]

NoLocals ==
    [original_terms |-> <<>>, terms |-> <<>>, i |-> 0, ext |-> NoExtraction,
     results |-> <<>>]

NoOutput == [kind |-> "none"]

\* no function is called on its own
NoApp == [fn |-> "none"]

NoCovid ==
    [pc |-> "idle", sentence |-> <<>>, candidates |-> <<>>, i |-> 0,
     case_start_list |-> <<>>, case_end_list |-> <<>>, text_case_list |-> <<>>,
     value_case_list |-> <<>>, out |-> NoOutput]

Init ==
    /\ term_dict = <<>>
    /\ pc = [c \in Threads |-> "idle"]
    /\ args = [c \in Threads |-> NoArgs]
    /\ locals = [c \in Threads |-> NoLocals]
    /\ out = [c \in Threads |-> NoOutput]
    /\ seen = <<>>
    /\ calls = 0
    /\ covid = NoCovid
    /\ app = NoApp

\* lines 1224-1263: the assertion and the term lists
Call(c, q) ==
    /\ pc[c] = "idle"
    /\ args' = [args EXCEPT ![c] = q]
    /\ IF q.term_string = NoneStr
       THEN /\ out' = [out EXCEPT ![c] = Raised("AssertionError")]
            /\ pc' = [pc EXCEPT ![c] = "done"]
            /\ UNCHANGED locals
       ELSE /\ locals' = [locals EXCEPT ![c] =
                [NoLocals EXCEPT
                    !.original_terms = split_terms(q.term_string),
                    !.terms = clean_terms(split_terms(q.term_string),
                                          q.is_case_sensitive),
                    !.i = 1]]
            /\ pc' = [pc EXCEPT ![c] = "map"]
            /\ UNCHANGED out
    /\ UNCHANGED <<term_dict, seen, covid, app>>

\* lines 1266-1271: one turn of the loop that fills _term_dict
MapTerm(c) ==
    /\ pc[c] = "map"
    /\ term_dict' = map_term(term_dict, locals[c].terms, locals[c].original_terms,
                             locals[c].i)
    /\ locals' = [locals EXCEPT ![c].i = @ + 1]
    /\ pc' = [pc EXCEPT ![c] = IF locals[c].i = Len(locals[c].terms)
                                THEN "extract" ELSE "map"]
    /\ UNCHANGED <<args, out, seen, calls, covid, app>>

\* lines 1273-1298: the bounds, the cleaned sentence and the candidates
Extract(c) ==
    /\ pc[c] = "extract"
    /\ locals' = [locals EXCEPT ![c].ext = Extraction[args[c]]]
    /\ IF locals'[c].ext.err # NoError
       THEN /\ out' = [out EXCEPT ![c] = Raised(locals'[c].ext.err)]
            /\ pc' = [pc EXCEPT ![c] = "done"]
       ELSE /\ pc' = [pc EXCEPT ![c] = "resolve"]
            /\ UNCHANGED out
    /\ UNCHANGED <<term_dict, args, seen, calls, covid, app>>

\* lines 1300-1309: the empty result, or the sort and the overlap resolver
Resolve(c) ==
    /\ pc[c] = "resolve"
    /\ IF Len(locals[c].ext.results) = 0
       THEN /\ out' = [out EXCEPT ![c] = EMPTY_RESULT]
            /\ pc' = [pc EXCEPT ![c] = "done"]
            /\ UNCHANGED locals
       ELSE /\ locals' = [locals EXCEPT ![c].results =
                            resolve_overlap(sort_by_start(locals[c].ext.results))]
            /\ pc' = [pc EXCEPT ![c] = "json"]
            /\ UNCHANGED out
    /\ UNCHANGED <<term_dict, args, seen, calls, covid, app>>

\* line 1311: _to_json, which reads _term_dict
ToJson(c) ==
    /\ pc[c] = "json"
    /\ out' = [out EXCEPT ![c] =
                to_json(locals[c].original_terms, args[c].sentence, locals[c].results,
                        has_enumlist(args[c].enumlist), term_dict)]
    /\ pc' = [pc EXCEPT ![c] = "done"]
    /\ UNCHANGED <<term_dict, args, locals, seen, calls, covid, app>>

\* the caller takes the result; with track, the first output for these
\* arguments is remembered
Return(c, track) ==
    /\ pc[c] = "done"
    /\ seen' = IF track /\ ~ \E k \in 1..Len(seen) : seen[k][1] = args[c]
               THEN Append(seen, <<args[c], out[c]>>) ELSE seen
    /\ pc' = [pc EXCEPT ![c] = "idle"]
    /\ args' = [args EXCEPT ![c] = NoArgs]
    /\ locals' = [locals EXCEPT ![c] = NoLocals]
    /\ out' = [out EXCEPT ![c] = NoOutput]
    /\ UNCHANGED <<term_dict, calls, covid, app>>

\* one caller, any call of the model, one call after the other
Next ==
    \/ \E q \in Queries : Call(1, q) /\ UNCHANGED calls
    \/ MapTerm(1)
    \/ Extract(1)
    \/ Resolve(1)
    \/ ToJson(1)
    \/ Return(1, FALSE)

Spec == Init /\ [][Next]_vars

\* one caller, at most MaxCalls calls whose terms differ in case only
NextSeq ==
    \/ \E q \in CaseQueries : calls < MaxCalls /\ Call(1, q) /\ calls' = calls + 1
    \/ MapTerm(1)
    \/ Extract(1)
    \/ Resolve(1)
    \/ ToJson(1)
    \/ Return(1, TRUE)

SpecSeq == Init /\ [][NextSeq]_vars

\* two threads whose calls interleave
NextPar ==
    \E c \in Threads :
        \/ \E q \in CaseQueries : calls < MaxCalls /\ Call(c, q) /\ calls' = calls + 1
        \/ MapTerm(c)
        \/ Extract(c)
        \/ Resolve(c)
        \/ ToJson(c)
        \/ Return(c, FALSE)

SpecPar == Init /\ [][NextPar]_vars

\* ------------------------------------------------------------------------
\* _resolve_overlap on its own

\* the longest list of candidates handed to _resolve_overlap on its own
MaxResults == 3

\* the lists of at most MaxResults of the candidates found by a call, in
\* every order that is sorted by start
Arrangements(found) ==
    LET picks == UNION {[1..k -> 1..Len(found)] : k \in 0..MaxResults}
    IN  {[i \in DOMAIN l |-> found[l[i]]] :
            l \in {l \in picks :
                    /\ \A i, j \in DOMAIN l : i < j => l[i] # l[j]
                    /\ \A i, j \in DOMAIN l :
                            i < j => found[l[i]].start <= found[l[j]].start}}

\* how often candidate r is in the list
Occurrences(list, r) == Cardinality({i \in 1..Len(list) : list[i] = r})

\* two lists of the same candidates
SameCandidates(l1, l2) ==
    /\ Len(l1) = Len(l2)
    /\ \A i \in 1..Len(l1) : Occurrences(l1, l1[i]) = Occurrences(l2, l1[i])

\* run() at line 1305 with the results given, ext being what the call q found
AtResolve(q, ext, results) ==
    [NoLocals EXCEPT !.original_terms = split_terms(q.term_string),
                     !.terms = clean_terms(split_terms(q.term_string), q.is_case_sensitive),
                     !.ext = [ext EXCEPT !.results = results]]

\* two callers of q at line 1305, each with a list of the same candidates
AtResolveBoth(q, ext) ==
    \E l1 \in Arrangements(ext.results) :
        \E l2 \in {l \in Arrangements(ext.results) : SameCandidates(l1, l)} :
            /\ args = [c \in Threads |-> q]
            /\ locals = [c \in Threads |-> AtResolve(q, ext, IF c = 1 THEN l1 ELSE l2)]

\* _resolve_overlap is about to be called for one of the calls of the model
InitOverlap ==
    /\ term_dict = <<>>
    /\ out = [c \in Threads |-> NoOutput]
    /\ seen = <<>>
    /\ calls = 0
    /\ covid = NoCovid
    /\ app = NoApp
    /\ pc = [c \in Threads |-> "resolve"]
    /\ \E q \in OverlapQueries : AtResolveBoth(q, Extraction[q])

NextOverlap == \E c \in Threads : Resolve(c)

SpecOverlap == InitOverlap /\ [][NextOverlap]_vars

\* what _resolve_overlap was given by caller c and what it returned
Resolved(c) == pc[c] = "json"
Given(c) == sort_by_start(locals[c].ext.results)
Kept(c) == {locals[c].results[k] : k \in 1..Len(locals[c].results)}

\* ------------------------------------------------------------------------
\* covid_finder.run(), one step per turn of its loop over the candidates

others == <<term_dict, pc, args, locals, out, seen, calls, app>>

\* lines 679-706: the candidates are found and the lists start empty
CovidRun(sentence) ==
    /\ covid.pc = "idle"
    /\ covid' = [NoCovid EXCEPT !.pc = "loop", !.sentence = sentence,
                                !.candidates = regex_match(sentence), !.i = 1]
    /\ UNCHANGED others

\* lines 708-747: one candidate. Its span and text are appended before its
\* captures are converted; an exception of a conversion ends run()
CovidCandidate ==
    /\ covid.pc = "loop"
    /\ covid.i <= Len(covid.candidates)
    /\ LET c == covid.candidates[covid.i]
           conv == Converted[c.other.groupdict]
       IN  covid' = [covid EXCEPT
                !.case_start_list = Append(@, c.other.start),
                !.case_end_list = Append(@, c.other.end),
                !.text_case_list = Append(@, c.other.group),
                !.value_case_list = @ \o conv.values,
                !.i = @ + 1,
                !.pc = IF conv.err # NoError THEN "done" ELSE "loop",
                !.out = IF conv.err # NoError THEN [kind |-> "raise", error |-> conv.err]
                        ELSE @]
    /\ UNCHANGED others

\* lines 749-807: the results are built from the lists, sorted and returned
CovidResults ==
    /\ covid.pc = "loop"
    /\ covid.i > Len(covid.candidates)
    /\ covid' = [covid EXCEPT
            !.pc = "done",
            !.out = [kind |-> "json",
                     results |-> sort_by_case_start(<<>>,
                        build_results(covid.case_start_list, covid.case_end_list,
                                      covid.text_case_list, covid.value_case_list))]]
    /\ UNCHANGED others

\* the caller has the result or the exception; the next call starts afresh
CovidReturn ==
    /\ covid.pc = "done"
    /\ covid' = NoCovid
    /\ UNCHANGED others

NextCovid ==
    \/ \E sentence \in CovidSentences : CovidRun(sentence)
    \/ CovidCandidate
    \/ CovidResults
    \/ CovidReturn

SpecCovid == Init /\ [][NextCovid]_vars

\* ------------------------------------------------------------------------
\* Functions called on their own

rest == <<term_dict, pc, args, locals, out, seen, calls, covid>>

\* the function fn is about to be called with the argument arg
Applying(fn, arg) == [fn |-> fn, arg |-> arg, out |-> NoOutput]

\* nothing else of the program runs
Alone ==
    /\ term_dict = <<>>
    /\ pc = [c \in Threads |-> "idle"]
    /\ args = [c \in Threads |-> NoArgs]
    /\ locals = [c \in Threads |-> NoLocals]
    /\ out = [c \in Threads |-> NoOutput]
    /\ seen = <<>>
    /\ calls = 0
    /\ covid = NoCovid

\* the call of fn has returned
Applied(fn) == app.fn = fn /\ app.out # NoOutput

\* _to_int on tokens of digits and commas: groups of digits with a comma
\* between them, MaxToken characters at most
MaxToken == 9

DigitGroups == {<<"6">>, <<"0", "0">>, <<"2", "0", "0">>, <<"1", "2", "3", "4">>}

RECURSIVE JoinGroups(_, _)
JoinGroups(groups, i) ==
    IF i > Len(groups) THEN <<>>
    ELSE IF i = 1 THEN groups[1] \o JoinGroups(groups, 2)
    ELSE <<",">> \o groups[i] \o JoinGroups(groups, i + 1)

Groupings ==
    {groups \in UNION {[1..k -> DigitGroups] : k \in 1..4} :
        Len(JoinGroups(groups, 1)) <= MaxToken}

InitToInt ==
    /\ Alone
    /\ \E groups \in Groupings : app = Applying("to_int", JoinGroups(groups, 1))

ToInt ==
    /\ app.fn = "to_int"
    /\ app.out = NoOutput
    /\ app' = [app EXCEPT !.out = to_int(app.arg)]
    /\ UNCHANGED rest

SpecToInt == InitToInt /\ [][ToInt]_vars

\* _cond_to_string on the words and the operator of a match: the words are
\* what the group 'words' holds, word after word with a blank behind each,
\* the operator is what the group 'cond' holds, stripped
MaxWords == 2

WordPhrases ==
    {<<"a", "b", "o", "u", "t", " ">>, <<"l", "e", "s", "s", " ", "t", "h", "a", "n", " ">>, <<"o", "v", "e", "r", " ">>, <<"o", "r", " ", "e", "q", "u", "a", "l", " ">>, <<"n", "e", "a", "r", "b", "y", " ">>, <<"s", "u", "n", "d", "e", "r", " ">>,
     <<"w", "a", "s", " ">>}

Operators ==
    {<<>>, <<"i", "s">>, <<"o", "f">>, <<"w", "a", "s">>, <<"a", "p", "p", "r", "o", "x">>, <<"a", "p", "p", "r", "o", "x", ".">>, <<"a", "p", "p", "r", "o", "x", "i", "m", "a", "t", "e", "l", "y">>,
     <<"~", "=">>, <<">", "=">>, <<"<", "=">>, <<"<">>, <<">">>, <<"=">>, <<"~">>, <<"?">>}

WordRuns == {Concat(ps) : ps \in UNION {[1..k -> WordPhrases] : k \in 0..MaxWords}}

InitCond ==
    /\ Alone
    /\ \E words \in WordRuns : \E cond \in Operators :
            app = Applying("cond_to_string", <<words, cond>>)

CondToString ==
    /\ app.fn = "cond_to_string"
    /\ app.out = NoOutput
    /\ app' = [app EXCEPT !.out = Value(cond_to_string(app.arg[1], app.arg[2]))]
    /\ UNCHANGED rest



SpecCond == InitCond /\ [][CondToString]_vars

\* ------------------------------------------------------------------------
\* mongo_logic_ops.py: the aggregation stages of the logic operators, and what
\* MongoDB makes of them

\* one stage of a pipeline: what it does, the field it reads and its operand
Stage(op, field, arg) == [op |-> op, field |-> field, arg |-> arg]

\* {"$match": {"nlpql_feature": {"$in": list}}}
match_feature_in(list) == Stage("match_in", "nlpql_feature", list)
\* {"$group": {"_id": id_string, "ntuple": {"$push": "$$ROOT"}, "count": {"$sum": 1}}}
group_and_count(id_string) == Stage("group", id_string, TRUE)
\* {"$group": {"_id": id_string, "ntuple": {"$push": "$$ROOT"}}}
group_only(id_string) == Stage("group", id_string, FALSE)
\* {"$match": {"count": {"$gte": n}}} and {"$match": {"count": {"$eq": n}}}
match_count_gte(n) == Stage("count_gte", "count", n)
match_count_eq(n) == Stage("count_eq", "count", n)
\* {"$match": {"ntuple.nlpql_feature": {"$in": list}}}
match_ntuple_feature_in(list) == Stage("ntuple_in", "ntuple.nlpql_feature", list)
\* {"$project": {"_id": 0, "ntuple": 1}}
project_ntuple == Stage("project", "ntuple", 1)

\* lines 10-61: _append_logical_and
append_logical_and(pipeline, id_string, n, nlpql_feature_list) ==
    pipeline \o <<match_feature_in(nlpql_feature_list), group_and_count(id_string),
                  match_count_gte(n), project_ntuple>>

\* lines 65-110: _append_logical_a_not_b
append_logical_a_not_b(pipeline, id_string, nlpql_feature_a, nlpql_feature_b) ==
    pipeline \o <<match_feature_in(<<nlpql_feature_a, nlpql_feature_b>>),
                  group_and_count(id_string), match_count_eq(1),
                  match_ntuple_feature_in(<<nlpql_feature_a>>), project_ntuple>>

\* lines 114-149: _append_logical_or
append_logical_or(pipeline, id_string, nlpql_feature_list) ==
    pipeline \o <<match_feature_in(nlpql_feature_list), group_only(id_string),
                  project_ntuple>>

\* "${0}".format(field_to_join_on)
IdString(field_to_join_on) == <<"$">> \o field_to_join_on

\* lines 192-201, 205-210, 214-225: _logical_a_and_b, _logical_a_or_b and
\* _logical_a_not_b
logical_a_and_b(pipeline, field_to_join_on, nlpql_feature_list) ==
    append_logical_and(pipeline, IdString(field_to_join_on), Len(nlpql_feature_list),
                       nlpql_feature_list)

logical_a_or_b(pipeline, field_to_join_on, nlpql_feature_list) ==
    append_logical_or(pipeline, IdString(field_to_join_on), nlpql_feature_list)

logical_a_not_b(pipeline, field_to_join_on, nlpql_feature_a, nlpql_feature_b) ==
    append_logical_a_not_b(pipeline, IdString(field_to_join_on), nlpql_feature_a,
                           nlpql_feature_b)

\* lines 229-254: logic_expr_a_b; an unknown operator leaves an empty pipeline
logic_expr_a_b(pipeline, operator, field_to_join_on, nlpql_feature_list) ==
    IF operator = "or" THEN logical_a_or_b(pipeline, field_to_join_on, nlpql_feature_list)
    ELSE IF operator = "and"
    THEN logical_a_and_b(pipeline, field_to_join_on, nlpql_feature_list)
    ELSE IF operator = "not"
    THEN logical_a_not_b(pipeline, field_to_join_on, nlpql_feature_list[1],
                         nlpql_feature_list[2])
    ELSE <<>>

\* what MongoDB's aggregate makes of a pipeline: the documents of the
\* collection carry an id, a value of the join field and an nlpql_feature
Doc(id, key, feature) == [id |-> id, key |-> key, nlpql_feature |-> feature]

InList(x, list) == \E i \in DOMAIN list : list[i] = x

\* the documents of a set in the order of their ids ($push keeps the order
\* in which the documents arrive)
RECURSIVE InIdOrder(_)
InIdOrder(docs) ==
    IF docs = {} THEN <<>>
    ELSE LET first == CHOOSE d \in docs : \A e \in docs : d.id <= e.id
         IN  <<first>> \o InIdOrder(docs \ {first})

\* $group: one document for each value of the join field
Grouped(docs, counted) ==
    { IF counted
      THEN [_id |-> k, ntuple |-> InIdOrder({d \in docs : d.key = k}),
            count |-> Cardinality({d \in docs : d.key = k})]
      ELSE [_id |-> k, ntuple |-> InIdOrder({d \in docs : d.key = k})]
      : k \in {d.key : d \in docs} }

\* one stage applied to the documents that reach it
ApplyStage(stage, docs) ==
    CASE stage.op = "match_in" -> {d \in docs : InList(d.nlpql_feature, stage.arg)}
      [] stage.op = "group" -> Grouped(docs, stage.arg)
      [] stage.op = "count_gte" -> {g \in docs : g.count >= stage.arg}
      [] stage.op = "count_eq" -> {g \in docs : g.count = stage.arg}
      [] stage.op = "ntuple_in" ->
            {g \in docs : \E i \in DOMAIN g.ntuple :
                            InList(g.ntuple[i].nlpql_feature, stage.arg)}
      [] stage.op = "project" -> {[ntuple |-> g.ntuple] : g \in docs}

RECURSIVE Aggregated(_, _, _)
Aggregated(pipeline, i, docs) ==
    IF i > Len(pipeline) THEN docs
    ELSE Aggregated(pipeline, i + 1, ApplyStage(pipeline[i], docs))

\* the collections: up to MaxDocs documents over two values of the join
\* field and three features
MaxDocs == 3
JoinValues == {1, 2}
Features == {"A", "B", "C"}
Collections ==
    UNION {{ {Doc(i, f[i][1], f[i][2]) : i \in 1..k}
             : f \in [1..k -> JoinValues \X Features] } : k \in 0..MaxDocs}

FeatureLists == {<<"A", "B">>, <<"A", "B", "C">>}
LogicOperators == {"and", "or", "not", "nor"}

InitLogic ==
    /\ Alone
    /\ \E operator \in LogicOperators : \E list \in FeatureLists :
       \E docs \in Collections :
            app = Applying("logic_expr_a_b",
                           [operator |-> operator, nlpql_feature_list |-> list,
                            docs |-> docs])

\* logic_expr_a_b builds the pipeline on an empty one, joining on 'subject'
LogicExprAB ==
    /\ app.fn = "logic_expr_a_b"
    /\ app.out = NoOutput
    /\ app' = [app EXCEPT !.out = Value(logic_expr_a_b(<<>>, app.arg.operator,
                                    <<"s", "u", "b", "j", "e", "c", "t">>, app.arg.nlpql_feature_list))]
    /\ UNCHANGED rest

\* the caller runs the pipeline on the collection
Aggregate ==
    /\ Applied("logic_expr_a_b")
    /\ app' = [fn |-> "aggregate", arg |-> app.arg,
               out |-> Value(Aggregated(app.out.val, 1, app.arg.docs))]
    /\ UNCHANGED rest

NextLogic == LogicExprAB \/ Aggregate

SpecLogic == InitLogic /\ [][NextLogic]_vars

\* ------------------------------------------------------------------------
\* Properties

\* what a call that returned measurements returned
Returned(c) == pc[c] = "done" /\ out[c].kind = "json"

Disjoint(a, b) == a.end <= b.start \/ b.end <= a.start

\* C1: the measurements a call returns are pairwise free of overlap: of any
\* two of them one ends where or before the other starts
C1_NoOverlap ==
    \A c \in Threads :
        Returned(c) =>
            \A i, j \in 1..Len(out[c].measurementList) :
                i # j => Disjoint(out[c].measurementList[i], out[c].measurementList[j])

\* a call whose candidates overlapped returned two measurements
C1_Witness ==
    /\ Returned(1)
    /\ Len(locals[1].ext.results) > Len(locals[1].results)
    /\ Len(out[1].measurementList) >= 2

\* the original terms of call c
OwnTerms(c) == {locals[c].original_terms[k] : k \in 1..Len(locals[c].original_terms)}

\* C2: when calls interleave, every measurement's matchingTerm in a call's
\* output is an original term of that same call's term list
C2_OwnTerms ==
    \A c \in Threads :
        Returned(c) =>
            \A i \in 1..Len(out[c].measurementList) :
                out[c].measurementList[i].matchingTerm \in OwnTerms(c)

\* C3: a call returns what the first call with the same arguments returned,
\* whichever calls ran before or between them
C3_SameOutput ==
    pc[1] = "done" =>
        \A k \in 1..Len(seen) : seen[k][1] = args[1] => seen[k][2] = out[1]

\* a second call with the arguments of the first one has returned
\* measurements, after a call with other arguments
C3_Witness ==
    /\ Returned(1)
    /\ Len(seen) >= 2
    /\ seen[1][1] = args[1]
    /\ Len(out[1].measurementList) > 0

\* call c ran in numeric mode
Numeric(c) == ~has_enumlist(args[c].enumlist)

\* C4: in numeric mode every returned x, and every y that is present, lies
\* between the call's minval and maxval
C4_WithinBounds ==
    \A c \in Threads :
        (Returned(c) /\ Numeric(c)) =>
            \A i \in 1..Len(out[c].measurementList) :
                LET m == out[c].measurementList[i]
                IN  /\ locals[c].ext.minval <= m.x
                    /\ m.x <= locals[c].ext.maxval
                    /\ m.y # EMPTY_FIELD =>
                          (locals[c].ext.minval <= m.y /\ m.y <= locals[c].ext.maxval)

\* a call with caller-supplied bounds returned a measurement with x and y
C4_Witness ==
    /\ Returned(1)
    /\ Numeric(1)
    /\ args[1].str_maxval # NoneStr
    /\ \E i \in 1..Len(out[1].measurementList) : out[1].measurementList[i].y # EMPTY_FIELD

\* the conditions of a numeric measurement
Conditions ==
    {STR_APPROX, STR_LT, STR_LTE, STR_GT, STR_GTE, STR_EQUAL, STR_RANGE,
     STR_FRACTION_RANGE}

\* C5: in numeric mode every returned measurement carries one of the eight
\* conditions, whichever pattern family produced it
C5_KnownCondition ==
    \A c \in Threads :
        (Returned(c) /\ Numeric(c)) =>
            \A i \in 1..Len(out[c].measurementList) :
                out[c].measurementList[i].condition \in Conditions

\* the index, among the words of sentence s, of the word at offset p
TokenIndex(s, p) ==
    Cardinality({i \in 1..p : s[i] \in str_split /\ (i = 1 \/ s[i - 1] \notin str_split)})

\* the candidate r of sentence s starts fewer than WINDOW words after a trigger
InWindow(s, r) ==
    \E h \in trigger_starts(re_split(lower(s), str_split)) :
        /\ 0 <= TokenIndex(s, r.start) - h
        /\ TokenIndex(s, r.start) - h < WINDOW

\* C6: the hypothetical filter removes every candidate whose first token
\* lies fewer than WINDOW words after a trigger
C6_WindowRemoved ==
    \A c \in Threads :
        (Numeric(c) /\ locals[c].ext.err = NoError) =>
            \A k \in 1..Len(locals[c].ext.candidates) :
                InWindow(locals[c].ext.sentence, locals[c].ext.candidates[k]) =>
                    \A j \in 1..Len(locals[c].ext.results) :
                        locals[c].ext.results[j] # locals[c].ext.candidates[k]

\* C7: a call that raises nothing returns a record with the success flag
\* and the measurement count, also when no candidate survived, and the flag
\* is true exactly when the measurement list is not empty
C7_EmptyRecord ==
    \A c \in Threads :
        (pc[c] = "done" /\ out[c].kind # "error") =>
            /\ out[c].kind = "json"
            /\ out[c].measurementCount = Len(out[c].measurementList)
            /\ out[c].querySuccess = (Len(out[c].measurementList) > 0)

\* C8: every returned measurement has 0 <= start < end <= len(sentence) and
\* its text is the original sentence from start to end
C8_ValidSpan ==
    \A c \in Threads :
        Returned(c) =>
            \A i \in 1..Len(out[c].measurementList) :
                LET m == out[c].measurementList[i]
                IN  /\ 0 <= m.start
                    /\ m.start < m.end
                    /\ m.end <= Len(args[c].sentence)
                    /\ m.text = SubSeq(args[c].sentence, m.start + 1, m.end)

\* the measurements of a call that has returned: none for EMPTY_RESULT
Survivors(c) == IF out[c].kind = "json" THEN locals[c].results ELSE <<>>

\* C9: the measurements returned are the hypothetical filter applied to
\* the overlap resolver's output for the candidates of all terms
C9_ResolveThenFilter ==
    \A c \in Threads :
        (pc[c] = "done" /\ out[c].kind # "error" /\ Numeric(c)) =>
            Survivors(c) =
                remove_hypotheticals(locals[c].ext.sentence,
                    resolve_overlap(sort_by_start(locals[c].ext.candidates)))

\* C10: a call with a missing or an empty term string ends with an error
\* before anything else is done
C10_Rejected ==
    \A c \in Threads :
        (pc[c] # "idle" /\ args[c].term_string \in {NoneStr, <<>>}) =>
            (pc[c] = "done" /\ out[c].kind = "error")

\* the caller's bounds parse and min > max
InvertedBounds(q) ==
    /\ q.str_minval # NoneStr
    /\ q.str_maxval # NoneStr
    /\ bounds_of(q.str_minval, q.str_maxval).ok
    /\ bounds_of(q.str_minval, q.str_maxval).minval > bounds_of(q.str_minval, q.str_maxval).maxval

\* one of the caller's bounds has the form of a fraction and cannot be parsed
UnparsedFraction(q) ==
    \E b \in {q.str_minval, q.str_maxval} :
        b # NoneStr /\ find(b, <<"/">>) # -1 /\ ~is_float(bound_text(b))

\* C11: a numeric call with min > max, or with a fraction-form bound that
\* cannot be parsed, ends with an error and returns no result
C11_BadBoundsRaise ==
    \A c \in Threads :
        (/\ pc[c] = "done"
         /\ Numeric(c)
         /\ InvertedBounds(args[c]) \/ UnparsedFraction(args[c])) =>
            out[c].kind = "error"

\* the caller's filter terms, as run() passes them on
FilterTerms(q) ==
    {filter_terms_of(q.enumlist, q.is_case_sensitive)[k] :
        k \in 1..Len(filter_terms_of(q.enumlist, q.is_case_sensitive))}

\* C13: in enumerated mode the value x of every returned measurement is one
\* of the caller's filter terms
C13_FilterTermValues ==
    \A c \in Threads :
        (Returned(c) /\ ~Numeric(c)) =>
            \A i \in 1..Len(out[c].measurementList) :
                out[c].measurementList[i].x \in FilterTerms(args[c])

\* C14: when y is present, minValue and maxValue are the smaller and the
\* larger of x and y; when y is absent in numeric mode, both are x
C14_MinMax ==
    \A c \in Threads :
        Returned(c) =>
            \A i \in 1..Len(out[c].measurementList) :
                LET m == out[c].measurementList[i]
                IN  /\ m.y # EMPTY_FIELD =>
                          /\ m.minValue <= m.maxValue
                          /\ {m.minValue, m.maxValue} = {m.x, m.y}
                    /\ (m.y = EMPTY_FIELD /\ Numeric(c)) =>
                          (m.minValue = m.x /\ m.maxValue = m.x)

\* a call returned a range whose second value is the smaller one, and a
\* measurement without y
C14_Witness ==
    /\ Returned(1)
    /\ \E i \in 1..Len(out[1].measurementList) :
            /\ out[1].measurementList[i].y # EMPTY_FIELD
            /\ out[1].measurementList[i].y < out[1].measurementList[i].x
    /\ \E i \in 1..Len(out[1].measurementList) :
            out[1].measurementList[i].y = EMPTY_FIELD

\* C15: the measurements are returned in the order of their start offsets
C15_OrderedByStart ==
    \A c \in Threads :
        Returned(c) =>
            \A i, j \in 1..Len(out[c].measurementList) :
                i < j => out[c].measurementList[i].start <= out[c].measurementList[j].start

\* a call whose candidates were found out of order and pruned returned two
\* measurements
C15_Witness ==
    /\ Returned(1)
    /\ Len(out[1].measurementList) >= 2
    /\ Len(locals[1].ext.results) > Len(locals[1].results)
    /\ \E i, j \in 1..Len(locals[1].ext.results) :
            i < j /\ locals[1].ext.results[i].start > locals[1].ext.results[j].start

\* C16: what _resolve_overlap keeps is a maximal conflict-free subset of
\* what it was given: every discarded candidate overlaps one that was kept
C16_Maximal ==
    \A c \in Threads :
        Resolved(c) =>
            \A k \in 1..Len(Given(c)) :
                Given(c)[k] \notin Kept(c) =>
                    \E r \in Kept(c) : ~Disjoint(r, Given(c)[k])

\* C17: two lists of the same candidates, both sorted by start, leave the
\* same candidates
C17_OrderIndependent ==
    (/\ Resolved(1)
     /\ Resolved(2)
     /\ SameCandidates(Given(1), Given(2))) =>
        Kept(1) = Kept(2)

\* two candidates with the same span
Identical(a, b) == a.start = b.start /\ a.end = b.end

\* a, the earlier in the list, and b overlap without having the same span
PartialOverlap(a, b) == a.end > b.start /\ ~Identical(a, b)

\* C18: of two candidates with identical spans and terms of different
\* length, the one with the shorter term is discarded and the one with the
\* longer term is kept by that pair
C18_LongerTermOfIdentical ==
    \A c \in Threads :
        Resolved(c) =>
            \A i, j \in 1..Len(Given(c)) :
                (/\ i # j
                 /\ Identical(Given(c)[i], Given(c)[j])
                 /\ Len(Given(c)[i].matching_term) > Len(Given(c)[j].matching_term)) =>
                    /\ Given(c)[j] \notin Kept(c)
                    /\ Len(Given(c)) = 2 => Given(c)[i] \in Kept(c)

\* two candidates with identical spans, the one with the shorter term first
\* in the list, were resolved and the second one was kept
C18_Witness ==
    /\ Resolved(1)
    /\ Len(Given(1)) = 2
    /\ Identical(Given(1)[1], Given(1)[2])
    /\ Len(Given(1)[1].matching_term) < Len(Given(1)[2].matching_term)
    /\ Kept(1) = {Given(1)[2]}

\* C19: when two candidates overlap partly and the text of the one that
\* starts later ends with the term of the one that starts earlier, the
\* earlier one is discarded
C19_EarlierDiscarded ==
    \A c \in Threads :
        Resolved(c) =>
            \A i, j \in 1..Len(Given(c)) :
                (/\ i < j
                 /\ Given(c)[i].start < Given(c)[j].start
                 /\ PartialOverlap(Given(c)[i], Given(c)[j])
                 /\ endswith(Given(c)[j].text, Given(c)[i].matching_term)) =>
                    Given(c)[i] \notin Kept(c)

\* rule 3 decides the pair of a, the earlier in the list, and b: they
\* overlap partly, a's text does not end with b's term, and b starts inside
\* a's term
TermsOverlap(a, b) ==
    /\ PartialOverlap(a, b)
    /\ ~endswith(a.text, b.matching_term)
    /\ b.start < a.start + Len(a.matching_term)

Unresolved(c) ==
    \E j \in DOMAIN c.other.groupdict :
        /\ c.other.groupdict[j][1] \in {"tnum", "tnum_to", "enum", "enum_to"}
        /\ convert(c.other.groupdict[j][1], c.other.groupdict[j][2],
                   c.other.groupdict).kind # "value"

CovidDone == covid.pc = "done"

\* C12: when a spelled-number or ordinal capture cannot be resolved, the
\* conversion yields no value, run() drops that candidate and returns a result
\* for each of the remaining candidates, and no exception reaches the caller
C12_UnresolvedDropped ==
    CovidDone =>
        /\ covid.out.kind = "json"
        /\ {<<covid.out.results[i].case_start, covid.out.results[i].case_end,
              covid.out.results[i].text_case>> : i \in DOMAIN covid.out.results}
           = {<<c.other.start, c.other.end, c.other.group>> :
                c \in {covid.candidates[j] : j \in {j \in DOMAIN covid.candidates :
                                                ~Unresolved(covid.candidates[j])}}}

\* the last rule decides the pair of a, the earlier in the list, and b: they
\* overlap partly, a's text does not end with b's term, and b starts at or
\* after the end of a's term
TermsApart(a, b) ==
    /\ PartialOverlap(a, b)
    /\ ~endswith(a.text, b.matching_term)
    /\ b.start >= a.start + Len(a.matching_term)

\* C21: of two candidates that overlap partly and whose terms do not overlap,
\* rule 2 not applying, the earlier one is discarded and the later one, the
\* closest to the value, is kept by that pair
C21_CloserKept ==
    \A c \in Threads :
        Resolved(c) =>
            \A i, j \in 1..Len(Given(c)) :
                (i < j /\ TermsApart(Given(c)[i], Given(c)[j])) =>
                    /\ Given(c)[i] \notin Kept(c)
                    /\ Len(Given(c)) = 2 => Given(c)[j] \in Kept(c)

\* two candidates whose terms lie apart were resolved and only the later one
\* was kept
C21_Witness ==
    /\ Resolved(1)
    /\ Len(Given(1)) = 2
    /\ TermsApart(Given(1)[1], Given(1)[2])
    /\ Kept(1) = {Given(1)[2]}

\* no term is twice in the cleaned term list of caller c, so that the
\* candidates of one term come from one call of _extract_value
DistinctTerms(c) ==
    \A a, b \in 1..Len(locals[c].terms) : a # b => locals[c].terms[a] # locals[c].terms[b]

\* the candidates _extract_value registered for caller c, those of all terms
\* one after the other, before the hypothetical filter
Registered(c) == locals[c].ext.candidates

\* C22: the candidates that _extract_value registers for one query term are
\* pairwise free of overlap: a match of a later pattern family is registered
\* only if its span overlaps no span claimed before
C22_FamiliesDisjoint ==
    \A c \in Threads :
        (Numeric(c) /\ DistinctTerms(c)) =>
            \A i, j \in 1..Len(Registered(c)) :
                (i # j /\ Registered(c)[i].matching_term = Registered(c)[j].matching_term)
                    => Disjoint(Registered(c)[i], Registered(c)[j])

\* a token of digits and commas whose grouping is right: one run of digits,
\* or one to three digits followed by groups of exactly three
WellGrouped(token) ==
    LET groups == split(token, ",")
    IN  /\ \A i \in 1..Len(groups) :
                Len(groups[i]) > 0 /\ \A k \in 1..Len(groups[i]) : groups[i][k] \in Digit
        /\ Len(groups) > 1 =>
                /\ Len(groups[1]) <= 3
                /\ \A i \in 2..Len(groups) : Len(groups[i]) = 3

\* C23: _to_int yields no value for a token whose digit grouping is
\* malformed, such as 6,200,00; it never returns the number left when the
\* commas are deleted
C23_MalformedRejected ==
    (Applied("to_int") /\ ~WellGrouped(app.arg)) => app.out = NoValue

\* the keyword kw is in s at the start of a word
StartsWord(s, kw) ==
    \E i \in 0..(Len(s) - Len(kw)) :
        /\ SubSeq(s, i + 1, i + Len(kw)) = kw
        /\ i = 0 \/ s[i] \notin WordChar

\* the keywords of each class, as they are in a text whose words are one
\* blank apart
ApproxWords == {<<"a", "p", "p", "r", "o", "x">>, <<"n", "e", "a", "r">>, <<"a", "b", "o", "u", "t">>}
LessWords == {<<"l", "e", "s", "s", " ", "t", "h", "a", "n">>, <<"l", "t">>, <<"u", "p", " ", "t", "o">>, <<"u", "n", "d", "e", "r">>}
GreaterWords == {<<"g", "r", "e", "a", "t", "e", "r", " ", "t", "h", "a", "n">>, <<"g", "t">>, <<"e", "x", "c", "e", "e", "d", "i", "n", "g">>, <<"e", "x", "c", "e", "e", "d", "s">>, <<"a", "b", "o", "v", "e">>, <<"o", "v", "e", "r">>}
OrEqualWords == {<<" ", "o", "r", " ", "e", "q", "u", "a", "l">>, <<" ", "o", "r", " ", "e", "q">>, <<".", " ", "o", "r", " ", "e", "q", "u", "a", "l">>, <<".", " ", "o", "r", " ", "e", "q">>}

HasApprox(s) == find(s, <<"~">>) # -1 \/ \E kw \in ApproxWords : StartsWord(s, kw)
HasLTE(s) ==
    find(s, <<"<", "=">>) # -1
        \/ \E kw \in LessWords : \E e \in OrEqualWords :
                StartsWord(s, kw \o e) /\ (e[1] = "." => kw = <<"l", "t">>)
HasGTE(s) ==
    find(s, <<">", "=">>) # -1
        \/ \E kw \in GreaterWords : \E e \in OrEqualWords :
                StartsWord(s, kw \o e) /\ (e[1] = "." => kw = <<"g", "t">>)
HasLT(s) == find(s, <<"<">>) # -1 \/ \E kw \in LessWords : StartsWord(s, kw)
HasGT(s) == find(s, <<">">>) # -1 \/ \E kw \in GreaterWords : StartsWord(s, kw)

\* the class of the words and the operator by the priority of the classes
ByPriority(s) ==
    IF HasApprox(s) THEN STR_APPROX
    ELSE IF HasLTE(s) THEN STR_LTE
    ELSE IF HasGTE(s) THEN STR_GTE
    ELSE IF HasLT(s) THEN STR_LT
    ELSE IF HasGT(s) THEN STR_GT
    ELSE STR_EQUAL

\* C24: _cond_to_string classifies the words, a blank and the operator by
\* fixed priority: approx, then less-or-equal, then greater-or-equal, then
\* less-than, then greater-than, and equal when no keyword of a class is there
C24_Priority ==
    Applied("cond_to_string") =>
        app.out = Value(ByPriority(app.arg[1] \o <<" ">> \o app.arg[2]))

\* a text with the keywords of less-than and of less-or-equal and none of
\* approx was classified as less-or-equal
C24_Witness ==
    /\ Applied("cond_to_string")
    /\ app.arg = <<<<"l", "e", "s", "s", " ", "t", "h", "a", "n", " ", "o", "r", " ", "e", "q", "u", "a", "l", " ">>, <<>>>>
    /\ app.out = Value(STR_LTE)

\* the pipeline of the operator has been run on the collection
Ran(operator) == app.fn = "aggregate" /\ app.arg.operator = operator

\* the values of the join field whose groups are returned
KeptKeys == {g.ntuple[1].key : g \in app.out.val}

\* the documents returned
ReturnedDocs == UNION {{g.ntuple[i] : i \in DOMAIN g.ntuple} : g \in app.out.val}

\* the value k of the join field has a document of the feature
HasFeature(k, feature) ==
    \E d \in app.arg.docs : d.key = k /\ d.nlpql_feature = feature

\* C25: the stages of 'and' keep the group of a value of the join field
\* exactly when the group has a document of each listed feature; a group of
\* n or more documents of fewer than n distinct features is not kept
C25_InnerJoin ==
    Ran("and") =>
        KeptKeys = {k \in JoinValues :
                        \A i \in DOMAIN app.arg.nlpql_feature_list :
                            HasFeature(k, app.arg.nlpql_feature_list[i])}

\* C26: the stages of 'not' return exactly the documents of feature A whose
\* value of the join field has no document of feature B, also when the value
\* has two or more documents of A
C26_AnotB ==
    Ran("not") =>
        ReturnedDocs = {d \in app.arg.docs :
                            /\ d.nlpql_feature = app.arg.nlpql_feature_list[1]
                            /\ ~HasFeature(d.key, app.arg.nlpql_feature_list[2])}

\* C27: _resolve_overlap does not discard every candidate: given candidates,
\* it keeps at least one, also when two of them are equal
C27_SomeKept ==
    \A c \in Threads :
        (Resolved(c) /\ Len(Given(c)) > 0) => Kept(c) # {}

\* the index, among the words of sentence s, of the first word of the
\* candidate r, whose span may begin with separators
FirstToken(s, r) ==
    TokenIndex(s, CHOOSE p \in r.start..r.end :
                    /\ p = r.end \/ s[p + 1] \notin str_split
                    /\ \A o \in r.start..(p - 1) : s[o + 1] \in str_split)

\* the first word of the candidate r of sentence s is before every trigger
\* or WINDOW or more words after it
OutsideWindows(s, r) ==
    \A h \in trigger_starts(re_split(lower(s), str_split)) :
        FirstToken(s, r) < h \/ FirstToken(s, r) - h >= WINDOW

\* C28: the hypothetical filter removes no candidate whose own first token
\* lies outside every trigger window, also when the words of its text occur
\* earlier in the sentence, inside a window
C28_OutsideKept ==
    \A c \in Threads :
        (Numeric(c) /\ locals[c].ext.err = NoError) =>
            \A k \in 1..Len(locals[c].ext.candidates) :
                OutsideWindows(locals[c].ext.sentence, locals[c].ext.candidates[k]) =>
                    \E j \in 1..Len(locals[c].ext.results) :
                        locals[c].ext.results[j] = locals[c].ext.candidates[k]

\* the values the captures of candidate c resolve to
ResolvedFrom(c) ==
    {Converted[c.other.groupdict].values[v] :
        v \in DOMAIN Converted[c.other.groupdict].values}

\* C29: the value_case of every record of run() is the number resolved from
\* the candidate whose match gives the record its case_start, case_end and
\* text_case, also when another candidate's capture resolves to nothing
C29_ValueOfOwnMatch ==
    (CovidDone /\ covid.out.kind = "json") =>
        \A i \in DOMAIN covid.out.results :
            \E j \in DOMAIN covid.candidates :
                /\ covid.candidates[j].other.start = covid.out.results[i].case_start
                /\ covid.candidates[j].other.end = covid.out.results[i].case_end
                /\ covid.candidates[j].other.group = covid.out.results[i].text_case
                /\ covid.out.results[i].value_case \in ResolvedFrom(covid.candidates[j])

\* C30: case_start and case_end of every record of run() are offsets into the
\* sentence, 0 <= case_start < case_end <= len(sentence), and the sentence
\* from case_start to case_end is text_case, also for a candidate of
\* _regex_case2 that was matched again in the rest of the sentence
C30_SpanInSentence ==
    (CovidDone /\ covid.out.kind = "json") =>
        \A i \in DOMAIN covid.out.results :
            /\ 0 <= covid.out.results[i].case_start
            /\ covid.out.results[i].case_start < covid.out.results[i].case_end
            /\ covid.out.results[i].case_end <= Len(SentenceText(covid.sentence))
            /\ SubSeq(SentenceText(covid.sentence), covid.out.results[i].case_start + 1,
                      covid.out.results[i].case_end) = covid.out.results[i].text_case

====
